---- MODULE Spec2Model ----
(***************************************************************************)
(* Model of the strategic-coordination (SCD) reference store of the DSS    *)
(* data node: src/datanode/src/app/scd.  The in-memory storage             *)
(* (memory_storage.py), the geometry predicates (geo.py) and the four      *)
(* mutating endpoints (operation_endpoints.py, subscription_endpoints.py)  *)
(* are translated statement by statement.  Python objects that the code    *)
(* mutates in place (Subscription objects and their dependent_operations   *)
(* sets) live in an explicit heap so that aliasing is preserved.           *)
(***************************************************************************)
EXTENDS Integers, Sequences, FiniteSets, TLC

\* ------------------------------------------------------------------------
\* Bounds of the model
\* ------------------------------------------------------------------------
MaxVersion == 4
MaxRequests == 3
MaxSetup == 2

\* Optional[X]: None or a one-element tuple holding the value.
None == <<>>
Some(x) == <<x>>
Val(o) == o[1]

Callers == {"uss1", "uss2"}
OpIds == {"op1", "op2"}
SubIds == {1, 2}
Cells == {1, 2}
Urls == {"url1", "url2"}
Handlers == {1, 2}

\* References to heap objects.  A stored Subscription with id s lives at
\* reference s whenever no handler is running; the extra references are for
\* objects that handlers hold while they run.
Refs == 1..(Cardinality(SubIds) + 2 * Cardinality(Handlers))

\* ------------------------------------------------------------------------
\* geo.py
\* ------------------------------------------------------------------------
Volume4(time_start, time_end, altitude_lo, altitude_hi, cells) ==
  [time_start |-> time_start, time_end |-> time_end,
   altitude_lo |-> altitude_lo, altitude_hi |-> altitude_hi, cells |-> cells]

\* Python's a < b on Optional numbers: TypeError when either side is None.
\* Result: "TypeError", "True" or "False".
PyLt(a, b) ==
  IF a = None \/ b = None THEN "TypeError"
  ELSE IF Val(a) < Val(b) THEN "True" ELSE "False"

\* Left-to-right evaluation of `c1 or c2 or ...` over a sequence of
\* comparison results: the first True wins, a TypeError before it raises.
RECURSIVE PyAny(_)
PyAny(cs) ==
  IF cs = <<>> THEN "False"
  ELSE IF Head(cs) = "False" THEN PyAny(Tail(cs))
  ELSE Head(cs)

\* Volume4.contains: "True", "False" or "TypeError".
Contains(self, other) ==
  LET outside == PyAny(<<PyLt(other.altitude_lo, self.altitude_lo),
                         PyLt(self.altitude_hi, other.altitude_hi),
                         PyLt(other.time_start, self.time_start),
                         PyLt(self.time_end, other.time_end)>>)
  IN IF outside = "TypeError" THEN "TypeError"
     ELSE IF outside = "True" THEN "False"
     ELSE IF other.cells \subseteq self.cells THEN "True" ELSE "False"

\* CombineStep with line 58 left out: union.time_end stays that of the
\* first volume.
CombineStep_KeepEnd(union, vol4) ==
  LET c1 == PyLt(vol4.time_start, union.time_start)
      c3 == PyLt(vol4.altitude_lo, union.altitude_lo)
      c4 == PyLt(union.altitude_hi, vol4.altitude_hi)
  IN IF "TypeError" \in {c1, c3, c4} THEN [exc |-> "TypeError", v |-> union]
     ELSE [exc |-> "",
           v |-> Volume4(IF c1 = "True" THEN vol4.time_start ELSE union.time_start,
                         union.time_end,
                         IF c3 = "True" THEN vol4.altitude_lo ELSE union.altitude_lo,
                         IF c4 = "True" THEN vol4.altitude_hi ELSE union.altitude_hi,
                         union.cells \cup vol4.cells)]

\* One iteration of the loop of combine_volume4s.  Results of operators that
\* may raise are records [exc, v]: exc is "" or the exception's class.
CombineStep(union, vol4) ==
  LET c1 == PyLt(vol4.time_start, union.time_start)
      c2 == PyLt(union.time_end, vol4.time_end)
      c3 == PyLt(vol4.altitude_lo, union.altitude_lo)
      c4 == PyLt(union.altitude_hi, vol4.altitude_hi)
  IN IF "TypeError" \in {c1, c2, c3, c4} THEN [exc |-> "TypeError", v |-> union]
     ELSE [exc |-> "",
           v |-> Volume4(IF c1 = "True" THEN vol4.time_start ELSE union.time_start,
                         IF c2 = "True" THEN vol4.time_end ELSE union.time_end,
                         IF c3 = "True" THEN vol4.altitude_lo ELSE union.altitude_lo,
                         IF c4 = "True" THEN vol4.altitude_hi ELSE union.altitude_hi,
                         union.cells \cup vol4.cells)]

RECURSIVE CombineFrom(_, _)
CombineFrom(union, vol4s) ==
  IF vol4s = <<>> THEN [exc |-> "", v |-> union]
  ELSE LET r == CombineStep(union, Head(vol4s))
       IN IF r.exc # "" THEN r
          ELSE CombineFrom(r.v, Tail(vol4s))

\* combine_volume4s over a non-empty sequence of volumes.
combine_volume4s(vol4s) == CombineFrom(Head(vol4s), Tail(vol4s))

\* combine_volume4s on Volume4 objects: objs is the sequence of the objects
\* allocated so far, an object's reference its index, and vol4s a sequence
\* of references.  The function allocates union (line 55: a new object with
\* a copy of the first volume's cells), assigns its fields at each further
\* volume (lines 57-61) and returns it: [exc, objs, v] with objs the objects
\* after the call and v the reference returned.
RECURSIVE CombineObjects(_, _, _)
CombineObjects(objs, union, vol4s) ==
  IF vol4s = <<>> THEN [exc |-> "", objs |-> objs, v |-> union]
  ELSE LET r == CombineStep(objs[union], objs[Head(vol4s)])
       IN IF r.exc # "" THEN [exc |-> r.exc, objs |-> objs, v |-> union]
          ELSE CombineObjects([objs EXCEPT ![union] = r.v], union, Tail(vol4s))

combine_volume4s_objects(objs, vol4s) ==
  CombineObjects(Append(objs, objs[Head(vol4s)]), Len(objs) + 1, Tail(vol4s))

\* overlaps_time_altitude: "True", "False" or "TypeError".
overlaps_time_altitude(area_of_interest, vol4) ==
  LET c1 == IF area_of_interest.time_start = None THEN "False"
            ELSE PyLt(vol4.time_end, area_of_interest.time_start)
      c2 == IF area_of_interest.time_end = None THEN "False"
            ELSE PyLt(area_of_interest.time_end, vol4.time_start)
      c3 == IF area_of_interest.altitude_lo = None THEN "False"
            ELSE PyLt(vol4.altitude_hi, area_of_interest.altitude_lo)
      c4 == IF area_of_interest.altitude_hi = None THEN "False"
            ELSE PyLt(area_of_interest.altitude_hi, vol4.altitude_lo)
      r == PyAny(<<c1, c2, c3, c4>>)
  IN IF r = "TypeError" THEN "TypeError"
     ELSE IF r = "True" THEN "False" ELSE "True"

\* ------------------------------------------------------------------------
\* memory_storage.py.  A memory m is a record
\*   subscriptions : dict  id -> reference of the Subscription object
\*   operations    : dict  id -> Operation (immutable once stored)
\*   cells         : dict  cell -> CellContents
\*   objs          : heap of Subscription objects, by reference
\*   sets          : heap of dependent_operations set objects, by reference
\* Dicts are functions whose domain is the set of keys present.
\* ------------------------------------------------------------------------
DictDel(d, k) == [x \in DOMAIN d \ {k} |-> d[x]]
DictSet(d, k, v) == [x \in DOMAIN d \cup {k} |-> IF x = k THEN v ELSE d[x]]
SetMin(S) == CHOOSE x \in S : \A y \in S : x <= y

CellContents == [subscription_ids |-> {}, operation_ids |-> {}]

\* is_empty answering False for every bucket: no bucket is ever evicted.
is_empty_Never(c) == FALSE

is_empty(c) == c.subscription_ids = {} /\ c.operation_ids = {}

\* The loop shared by _remove_subscription_from_cells and
\* _remove_operation_from_cells (field names the ID set of the bucket).  A
\* missing bucket or a missing ID raises KeyError and leaves the removals
\* done so far in place.  Cells are visited in ascending order.
RECURSIVE RemoveLoop(_, _, _, _, _)
RemoveLoop(cells, field, id, todo, to_remove) ==
  IF todo = {} THEN [exc |-> "", cells |-> [c \in DOMAIN cells \ to_remove |-> cells[c]]]
  ELSE LET cell == SetMin(todo)
       IN IF cell \notin DOMAIN cells \/ id \notin cells[cell][field]
          THEN [exc |-> "KeyError", cells |-> cells]
          ELSE LET removed == [cells EXCEPT ![cell][field] = @ \ {id}]
               IN RemoveLoop(removed, field, id, todo \ {cell},
                             IF is_empty(removed[cell]) THEN to_remove \cup {cell}
                             ELSE to_remove)

\* _remove_subscription_from_cells with the test of is_empty at line 39 left
\* out: every bucket visited is deleted.
remove_subscription_from_cells_Evict(cells, subscription) ==
  [exc |-> IF \E c \in subscription.vol4.cells :
                c \notin DOMAIN cells \/ subscription.id \notin cells[c].subscription_ids
           THEN "KeyError" ELSE "",
   cells |-> [c \in DOMAIN cells \ subscription.vol4.cells |-> cells[c]]]

remove_subscription_from_cells(cells, subscription) ==
  RemoveLoop(cells, "subscription_ids", subscription.id, subscription.vol4.cells, {})

remove_operation_from_cells(cells, operation) ==
  RemoveLoop(cells, "operation_ids", operation.id, operation.vol4.cells, {})

\* The loop that files an entity under each of its cells.
AddToCells(cells, field, id, cs) ==
  [c \in DOMAIN cells \cup cs |->
     LET old == IF c \in DOMAIN cells THEN cells[c] ELSE CellContents
     IN IF c \in cs THEN [old EXCEPT ![field] = @ \cup {id}] ELSE old]

get_subscription(m, id) ==
  IF id \in DOMAIN m.subscriptions THEN Some(m.subscriptions[id]) ELSE None

\* upsert_subscription with lines 48-50 left out: the old Subscription
\* stays filed under its cells.
upsert_subscription_NoRemove(m, ref) ==
  [exc |-> "",
   m |-> [m EXCEPT
            !.subscriptions = DictSet(@, m.objs[ref].id, ref),
            !.cells = AddToCells(m.cells, "subscription_ids",
                                 m.objs[ref].id, m.objs[ref].vol4.cells)]]

\* upsert_subscription(subscription), the argument given by reference.
upsert_subscription(m, ref) ==
  LET subscription == m.objs[ref]
      rm == IF subscription.id \in DOMAIN m.subscriptions
            THEN remove_subscription_from_cells(
                   m.cells, m.objs[m.subscriptions[subscription.id]])
            ELSE [exc |-> "", cells |-> m.cells]
  IN IF rm.exc # "" THEN [exc |-> rm.exc, m |-> [m EXCEPT !.cells = rm.cells]]
     ELSE [exc |-> "",
           m |-> [m EXCEPT
                    !.subscriptions = DictSet(@, subscription.id, ref),
                    !.cells = AddToCells(rm.cells, "subscription_ids",
                                         subscription.id, subscription.vol4.cells)]]

\* The candidate IDs that find_subscriptions / find_operations collect.
Candidates(m, field, vol4) ==
  UNION {m.cells[c][field] : c \in vol4.cells \cap DOMAIN m.cells}

\* A set of integers as the ascending sequence of its elements.
RECURSIVE Ascending(_)
Ascending(S) ==
  IF S = {} THEN <<>> ELSE <<SetMin(S)>> \o Ascending(S \ {SetMin(S)})

\* find_subscriptions with the test of overlaps_time_altitude at line 66
\* left out.
find_subscriptions_NoOverlapTest(m, vol4, owner) ==
  LET sub_ids == Candidates(m, "subscription_ids", vol4)
      sub(id) == m.objs[m.subscriptions[id]]
      considered == {id \in sub_ids : owner = None \/ sub(id).owner = Val(owner)}
  IN IF \E id \in sub_ids : id \notin DOMAIN m.subscriptions
     THEN [exc |-> "KeyError", v |-> <<>>]
     ELSE [exc |-> "",
           v |-> LET ids == Ascending(considered)
                 IN [i \in 1..Len(ids) |-> m.subscriptions[ids[i]]]]

\* find_subscriptions: [exc, v] with v the sequence of references of the
\* matching Subscription objects (candidates visited in ascending ID order).
\* owner is Optional.
find_subscriptions(m, vol4, owner) ==
  LET sub_ids == Candidates(m, "subscription_ids", vol4)
      sub(id) == m.objs[m.subscriptions[id]]
      considered == {id \in sub_ids : owner = None \/ sub(id).owner = Val(owner)}
      test(id) == overlaps_time_altitude(vol4, sub(id).vol4)
  IN IF \E id \in sub_ids : id \notin DOMAIN m.subscriptions
     THEN [exc |-> "KeyError", v |-> <<>>]
     ELSE IF \E id \in considered : test(id) = "TypeError"
     THEN [exc |-> "TypeError", v |-> <<>>]
     ELSE [exc |-> "",
           v |-> LET ids == Ascending({id \in considered : test(id) = "True"})
                 IN [i \in 1..Len(ids) |-> m.subscriptions[ids[i]]]]

\* The Operation objects of a set of IDs, in the order of the IDs.
OpOrder == <<"op1", "op2">>
InOrder(S) == SelectSeq(OpOrder, LAMBDA id : id \in S)
AscendingOps(S, m) == [i \in 1..Len(InOrder(S)) |-> m.operations[InOrder(S)[i]]]

\* find_operations: [exc, v] with v the sequence of the matching Operation
\* objects (candidates visited in ascending ID order).
find_operations(m, vol4) ==
  LET op_ids == Candidates(m, "operation_ids", vol4)
      test(id) == overlaps_time_altitude(vol4, m.operations[id].vol4)
  IN IF \E id \in op_ids : id \notin DOMAIN m.operations
     THEN [exc |-> "KeyError", v |-> <<>>]
     ELSE IF \E id \in op_ids : test(id) = "TypeError"
     THEN [exc |-> "TypeError", v |-> <<>>]
     ELSE [exc |-> "", v |-> AscendingOps({id \in op_ids : test(id) = "True"}, m)]

\* delete_subscription with line 72 reading the Subscription without
\* popping it.
delete_subscription_NoPop(m, id) ==
  IF id \notin DOMAIN m.subscriptions THEN [exc |-> "KeyError", m |-> m]
  ELSE LET rm == remove_subscription_from_cells(m.cells, m.objs[m.subscriptions[id]])
       IN [exc |-> rm.exc, m |-> [m EXCEPT !.cells = rm.cells]]

delete_subscription(m, id) ==
  IF id \notin DOMAIN m.subscriptions THEN [exc |-> "KeyError", m |-> m]
  ELSE LET rm == remove_subscription_from_cells(m.cells, m.objs[m.subscriptions[id]])
       IN [exc |-> rm.exc,
           m |-> [m EXCEPT !.subscriptions = DictDel(@, id), !.cells = rm.cells]]

get_operation(m, id) ==
  IF id \in DOMAIN m.operations THEN Some(m.operations[id]) ELSE None

upsert_operation(m, operation) ==
  LET rm == IF operation.id \in DOMAIN m.operations
            THEN remove_operation_from_cells(m.cells, m.operations[operation.id])
            ELSE [exc |-> "", cells |-> m.cells]
  IN IF rm.exc # "" THEN [exc |-> rm.exc, m |-> [m EXCEPT !.cells = rm.cells]]
     ELSE [exc |-> "",
           m |-> [m EXCEPT
                    !.operations = DictSet(@, operation.id, operation),
                    !.cells = AddToCells(rm.cells, "operation_ids",
                                         operation.id, operation.vol4.cells)]]

delete_operation(m, id) ==
  IF id \notin DOMAIN m.operations THEN [exc |-> "KeyError", m |-> m]
  ELSE LET rm == remove_operation_from_cells(m.cells, m.operations[id])
       IN [exc |-> rm.exc,
           m |-> [m EXCEPT !.operations = DictDel(@, id), !.cells = rm.cells]]

\* ------------------------------------------------------------------------
\* subscriptions.py, operations.py
\* ------------------------------------------------------------------------
\* A Subscription object; dependent_operations is a reference into m.sets.
Subscription(id, owner, version, notification_index, vol4, uss_base_url, notify_for_operations, notify_for_constraints, implicit_subscription, dependent_operations) ==
  [id |-> id, owner |-> owner, version |-> version,
   notification_index |-> notification_index, vol4 |-> vol4,
   uss_base_url |-> uss_base_url,
   notify_for_operations |-> notify_for_operations,
   notify_for_constraints |-> notify_for_constraints,
   implicit_subscription |-> implicit_subscription,
   dependent_operations |-> dependent_operations]

Operation(id, owner, version, ovn, vol4, uss_base_url, subscription) ==
  [id |-> id, owner |-> owner, version |-> version, ovn |-> ovn,
   vol4 |-> vol4, uss_base_url |-> uss_base_url, subscription |-> subscription]

\* Allocation of a Python object: a reference not in use.
NewRef(heapdict) == SetMin(Refs \ DOMAIN heapdict)

\* uuid.uuid4() for a new implicit Subscription: an ID that no stored entity,
\* live object or stored binding carries (the least such one, IDs being
\* opaque).  The set is empty when the model's ID pool is exhausted.
FreshSubIds(m) ==
  SubIds \ (DOMAIN m.subscriptions
            \cup {m.objs[r].id : r \in DOMAIN m.objs}
            \cup {m.operations[o].subscription : o \in DOMAIN m.operations})

\* make_ovn(): a string no stored Operation carries.
Ovns == 1..(Cardinality(OpIds) + 1)
make_ovn(m) == SetMin(Ovns \ {m.operations[o].ovn : o \in DOMAIN m.operations})

\* The version/field checks of both from_request functions: "" or the kind
\* of the ValueError raised.  existing_version is Optional.
VersionCheck(json, existing_version) ==
  IF existing_version # None
  THEN IF json.old_version = None THEN "VersionConflict"
       ELSE IF Val(json.old_version) # Val(existing_version) THEN "VersionConflict"
       ELSE ""
  ELSE IF json.old_version # None /\ Val(json.old_version) # 0 THEN "VersionConflict"
       ELSE ""

\* json.get('old_version', 0) + 1
RequestVersion(json) ==
  (IF json.old_version = None THEN 0 ELSE Val(json.old_version)) + 1

\* operations.from_request: [err, v]; err is "" or the kind of the error.
operations_from_request(m, id, json, owner, subscription_id, existing_operation, extents) ==
  LET vc == VersionCheck(json, IF existing_operation = None THEN None
                               ELSE Some(Val(existing_operation).version))
      nothing == Operation(id, owner, 0, 0, extents, "", subscription_id)
  IN IF vc # "" THEN [err |-> vc, v |-> nothing]
     ELSE IF json.uss_base_url = None THEN [err |-> "InvalidRequest", v |-> nothing]
     ELSE IF None \in {extents.time_start, extents.time_end,
                       extents.altitude_lo, extents.altitude_hi}
     THEN [err |-> "InvalidRequest", v |-> nothing]
     ELSE [err |-> "",
           v |-> Operation(id, owner, RequestVersion(json), make_ovn(m), extents,
                           Val(json.uss_base_url), subscription_id)]

\* format_ts: None is formatted as the current time.
format_ts(timestamp, now) == IF timestamp = None THEN now ELSE Val(timestamp)

\* The current time at which requests arrive.
Now == 1

\* Operation.to_dict with lines 49-51 replaced by "return result": the
\* OVN is withheld.
operation_to_dict_NoOvn(operation, include_ovn) ==
  [id |-> operation.id, owner |-> operation.owner, version |-> operation.version,
   time_start |-> format_ts(operation.vol4.time_start, Now),
   time_end |-> format_ts(operation.vol4.time_end, Now),
   uss_base_url |-> operation.uss_base_url,
   subscription_id |-> operation.subscription,
   ovn |-> None]

\* Operation.to_dict
operation_to_dict(operation, include_ovn) ==
  [id |-> operation.id, owner |-> operation.owner, version |-> operation.version,
   time_start |-> format_ts(operation.vol4.time_start, Now),
   time_end |-> format_ts(operation.vol4.time_end, Now),
   uss_base_url |-> operation.uss_base_url,
   subscription_id |-> operation.subscription,
   ovn |-> IF include_ovn THEN Some(operation.ovn) ELSE None]

\* get_subscribers over a sequence of Subscription objects: one entry per
\* uss_base_url in order of first appearance, each listing its subscriptions
\* in input order.
RECURSIVE GroupByUrl(_, _)
GroupByUrl(subs, acc) ==
  IF subs = <<>> THEN acc
  ELSE LET sub == Head(subs)
           entry == [subscription_id |-> sub.id,
                     notification_index |-> sub.notification_index]
           at == {i \in 1..Len(acc) : acc[i].uss_base_url = sub.uss_base_url}
       IN IF at = {}
          THEN GroupByUrl(Tail(subs),
                 Append(acc, [uss_base_url |-> sub.uss_base_url,
                              subscriptions |-> <<entry>>]))
          ELSE GroupByUrl(Tail(subs),
                 [acc EXCEPT ![SetMin(at)].subscriptions = Append(@, entry)])

get_subscribers(subs) == GroupByUrl(subs, <<>>)

\* ------------------------------------------------------------------------
\* Request handlers.  A handler's local state l is a record: pc (the next
\* statement group), req (the request), the handler's local variables, and
\* the response (status, body) once pc = "done".  A step takes a memory and
\* a local state and returns both after the statements at pc.
\* ------------------------------------------------------------------------
StartLocal(req) ==
  [pc |-> "start", req |-> req, vol4 |-> None, existing_operation |-> None,
   sub |-> None, new_operation |-> None, existing_subscription |-> None,
   status |-> "", body |-> None]

\* handle_exception of routes.py / scd.py: the response kind of an exception
\* that is neither NotFoundError, NotOwnedError nor ValueError is a 500.
ServerError == "ServerError"
Errors ==
  {"Unauthenticated", "Forbidden", "NotFound", "VersionConflict", "InvalidRequest",
   ServerError}

InvalidVolume == [invalid |-> TRUE]

Raise(m, l, kind) == [m |-> m, l |-> [l EXCEPT !.pc = "done", !.status = kind]]
Goto(m, l, pc) == [m |-> m, l |-> [l EXCEPT !.pc = pc]]

\* After a call of the storage that returned up = [exc, m]: an exception of
\* the storage (a KeyError) is not handled and ends the handler.
AfterStore(up, l, pc) ==
  IF up.exc # "" THEN Raise(up.m, l, ServerError) ELSE Goto(up.m, l, pc)


\* PutOperation, lines 63-65, with the owner check left out.
PutOperation_check_owner_NoCheck(m, l, vol4) ==
  IF vol4.exc # "" THEN Raise(m, l, ServerError)
  ELSE Goto(m, [l EXCEPT !.vol4 = Some(vol4.v),
                         !.existing_operation = get_operation(m, l.req.id)],
            "bind")

\* PutOperation, lines 63-65: load the Operation, check the owner.  vol4 is
\* the result [exc, v] of combine_volume4s at line 61.
PutOperation_check_owner(m, l, vol4) ==
  IF vol4.exc # "" THEN Raise(m, l, ServerError)
  ELSE IF get_operation(m, l.req.id) # None
          /\ Val(get_operation(m, l.req.id)).owner # l.req.caller
  THEN Raise(m, l, "Forbidden")
  ELSE Goto(m, [l EXCEPT !.vol4 = Some(vol4.v),
                         !.existing_operation = get_operation(m, l.req.id)],
            "bind")

\* PutOperation, lines 49-65: parse the extents, combine them, load the
\* Operation, check the owner.
PutOperation_start(m, l) ==
  IF l.req.extents = <<>> THEN Raise(m, l, "InvalidRequest")
  ELSE IF \E i \in 1..Len(l.req.extents) : l.req.extents[i] = InvalidVolume
  THEN Raise(m, l, "InvalidRequest")
  ELSE PutOperation_check_owner(m, l, combine_volume4s(l.req.extents))

\* PutOperation, lines 67-70 and 75-83: resolve the binding subscription.
\* pc becomes "blocked" when the model has no ID left for uuid4().
PutOperation_bind(m, l) ==
  LET json == l.req
  IN IF json.subscription_id # None
     THEN LET sub == get_subscription(m, Val(json.subscription_id))
          IN IF sub = None THEN Raise(m, l, "InvalidRequest")
             ELSE Goto(m, [l EXCEPT !.sub = sub], "add_dependent")
     ELSE IF json.new_subscription # None
     THEN IF Val(json.new_subscription).uss_base_url = None
          THEN Raise(m, l, "InvalidRequest")
          ELSE IF FreshSubIds(m) = {} THEN Goto(m, l, "blocked")
          ELSE LET ref == NewRef(m.objs)
                   setref == NewRef(m.sets)
                   sub == Subscription(
                            SetMin(FreshSubIds(m)), json.caller, 1, 0, Val(l.vol4),
                            Val(Val(json.new_subscription).uss_base_url), TRUE,
                            Val(json.new_subscription).notify_for_constraints,
                            TRUE, setref)
               IN Goto([m EXCEPT !.objs = DictSet(@, ref, sub),
                                 !.sets = DictSet(@, setref, {json.id})],
                       [l EXCEPT !.sub = Some(ref)], "from_request")
     ELSE Raise(m, l, "InvalidRequest")

\* PutOperation, line 71: sub.dependent_operations.add(operation_id)
PutOperation_add_dependent(m, l) ==
  LET sub == m.objs[Val(l.sub)]
  IN Goto([m EXCEPT !.sets[sub.dependent_operations] = @ \cup {l.req.id}],
          l, "bump_version")

\* PutOperation, lines 72-74: sub.version += 1, then the containment check.
PutOperation_bump_version(m, l) ==
  LET ref == Val(l.sub)
      m1 == [m EXCEPT !.objs[ref].version = @ + 1]
      inside == Contains(m1.objs[ref].vol4, Val(l.vol4))
  IN IF inside = "TypeError" THEN Raise(m1, l, ServerError)
     ELSE IF inside = "False" THEN Raise(m1, l, "InvalidRequest")
     ELSE Goto(m1, l, "from_request")

\* PutOperation, lines 86-88: bump the version of the Operation built (r is
\* the result [err, v] of from_request) and store it.
PutOperation_upsert_op(m, l, r) ==
  IF r.err # "" THEN Raise(m, l, r.err)
  ELSE AfterStore(upsert_operation(m, [r.v EXCEPT !.version = @ + 1]),
                  [l EXCEPT !.new_operation = Some([r.v EXCEPT !.version = @ + 1])],
                  "upsert_sub")

\* PutOperation, lines 85-88: build the Operation, bump its version, store it.
PutOperation_from_request(m, l) ==
  PutOperation_upsert_op(
    m, l, operations_from_request(m, l.req.id, l.req, l.req.caller,
                                  m.objs[Val(l.sub)].id, l.existing_operation,
                                  Val(l.vol4)))

\* PutOperation, line 89: upsert_subscription(sub)
PutOperation_upsert_sub(m, l) ==
  AfterStore(upsert_subscription(m, Val(l.sub)), l, "respond")

\* The Subscription objects a sequence of references names.
Deref(m, refs) == [i \in 1..Len(refs) |-> m.objs[refs[i]]]

\* The response of PUT and DELETE of an Operation: found is the result
\* [exc, v] of find_subscriptions.
OperationResponse(m, l, operation, found, status) ==
  IF found.exc # "" THEN Raise(m, l, ServerError)
  ELSE [m |-> m,
        l |-> [l EXCEPT
                 !.pc = "done", !.status = status,
                 !.body = [operation_reference |-> operation_to_dict(operation, TRUE),
                           subscribers |-> get_subscribers(Deref(m, found.v))]]]

\* PutOperation, lines 91-96, with the subscribers found by the vol4 of the
\* Operation as it was stored before the PUT.
PutOperation_respond_OldVolume(m, l) ==
  OperationResponse(m, l, Val(l.new_operation),
                    find_subscriptions(m, IF l.existing_operation # None
                                          THEN Val(l.existing_operation).vol4
                                          ELSE Val(l.vol4), None),
                    IF l.existing_operation # None THEN "OK" ELSE "Created")

\* PutOperation, lines 91-96: the subscribers and the response.
PutOperation_respond(m, l) ==
  OperationResponse(m, l, Val(l.new_operation),
                    find_subscriptions(m, Val(l.vol4), None),
                    IF l.existing_operation # None THEN "OK" ELSE "Created")

PutOperation_step(m, l) ==
  CASE l.pc = "start" -> PutOperation_start(m, l)
    [] l.pc = "bind" -> PutOperation_bind(m, l)
    [] l.pc = "add_dependent" -> PutOperation_add_dependent(m, l)
    [] l.pc = "bump_version" -> PutOperation_bump_version(m, l)
    [] l.pc = "from_request" -> PutOperation_from_request(m, l)
    [] l.pc = "upsert_sub" -> PutOperation_upsert_sub(m, l)
    [] l.pc = "respond" -> PutOperation_respond(m, l)

\* DeleteOperation, lines 101-106: load the Operation, check the owner.
DeleteOperation_start(m, l) ==
  LET old_operation == get_operation(m, l.req.id)
  IN IF old_operation = None THEN Raise(m, l, "NotFound")
     ELSE IF Val(old_operation).owner # l.req.caller THEN Raise(m, l, "Forbidden")
     ELSE Goto(m, [l EXCEPT !.existing_operation = old_operation], "delete_op")

\* DeleteOperation, line 107: delete_operation(operation_id)
DeleteOperation_delete_op(m, l) ==
  AfterStore(delete_operation(m, l.req.id), l, "get_sub")

\* DeleteOperation, line 109: sub = get_subscription(old_operation.subscription)
DeleteOperation_get_sub(m, l) ==
  Goto(m, [l EXCEPT !.sub = get_subscription(m, Val(l.existing_operation).subscription)],
       "remove_dependent")

\* DeleteOperation, line 110: sub.dependent_operations.remove(operation_id);
\* AttributeError when sub is None, KeyError when the ID is not in the set.
DeleteOperation_remove_dependent(m, l) ==
  IF l.sub = None THEN Raise(m, l, ServerError)
  ELSE LET setref == m.objs[Val(l.sub)].dependent_operations
       IN IF l.req.id \notin m.sets[setref] THEN Raise(m, l, ServerError)
          ELSE Goto([m EXCEPT !.sets[setref] = @ \ {l.req.id}], l, "cascade")

\* DeleteOperation, lines 111-113 with line 114, sub.version += 1, left out.
DeleteOperation_cascade_NoBump(m, l) ==
  IF /\ m.objs[Val(l.sub)].implicit_subscription
     /\ m.sets[m.objs[Val(l.sub)].dependent_operations] = {}
  THEN AfterStore(delete_subscription(m, m.objs[Val(l.sub)].id), l, "respond")
  ELSE Goto(m, l, "upsert_sub")

\* DeleteOperation, lines 111-114: delete an implicit subscription left with
\* no dependent Operation, otherwise bump the subscription's version.
DeleteOperation_cascade(m, l) ==
  IF /\ m.objs[Val(l.sub)].implicit_subscription
     /\ m.sets[m.objs[Val(l.sub)].dependent_operations] = {}
  THEN AfterStore(delete_subscription(m, m.objs[Val(l.sub)].id), l, "respond")
  ELSE Goto([m EXCEPT !.objs[Val(l.sub)].version = @ + 1], l, "upsert_sub")

\* DeleteOperation, line 115: upsert_subscription(sub)
DeleteOperation_upsert_sub(m, l) ==
  AfterStore(upsert_subscription(m, Val(l.sub)), l, "respond")

\* DeleteOperation, lines 117-122, with the subscriptions of the caller only.
DeleteOperation_respond_OwnSubscriptions(m, l) ==
  OperationResponse(m, l, Val(l.existing_operation),
                    find_subscriptions(m, Val(l.existing_operation).vol4,
                                       Some(l.req.caller)), "OK")

\* DeleteOperation, lines 117-122: the subscribers and the response.
DeleteOperation_respond(m, l) ==
  OperationResponse(m, l, Val(l.existing_operation),
                    find_subscriptions(m, Val(l.existing_operation).vol4, None), "OK")

DeleteOperation_step(m, l) ==
  CASE l.pc = "start" -> DeleteOperation_start(m, l)
    [] l.pc = "delete_op" -> DeleteOperation_delete_op(m, l)
    [] l.pc = "get_sub" -> DeleteOperation_get_sub(m, l)
    [] l.pc = "remove_dependent" -> DeleteOperation_remove_dependent(m, l)
    [] l.pc = "cascade" -> DeleteOperation_cascade(m, l)
    [] l.pc = "upsert_sub" -> DeleteOperation_upsert_sub(m, l)
    [] l.pc = "respond" -> DeleteOperation_respond(m, l)

\* Subscription.to_dict, the object given by reference.
subscription_to_dict(m, ref, now) ==
  LET sub == m.objs[ref]
  IN [id |-> sub.id, version |-> sub.version,
      notification_index |-> sub.notification_index,
      time_start |-> format_ts(sub.vol4.time_start, now),
      time_end |-> format_ts(sub.vol4.time_end, now),
      uss_base_url |-> sub.uss_base_url,
      notify_for_operations |-> sub.notify_for_operations,
      notify_for_constraints |-> sub.notify_for_constraints,
      implicit_subscription |-> sub.implicit_subscription,
      dependent_operations |-> m.sets[sub.dependent_operations]]

\* subscriptions.from_request with line 104 reading dependent_operations=set():
\* the new Subscription object always gets a new empty set.
subscriptions_from_request_NewSet(m, id, json, owner, existing_subscription) ==
  LET existing == m.objs[Val(existing_subscription)]
      vc == VersionCheck(json, IF existing_subscription = None THEN None
                               ELSE Some(existing.version))
      vol4 == Val(json.extents)
      ref == NewRef(m.objs)
      setref == NewRef(m.sets)
      sub == Subscription(
               id, owner, RequestVersion(json),
               IF existing_subscription = None THEN 0 ELSE existing.notification_index,
               IF vol4.time_start = None THEN [vol4 EXCEPT !.time_start = Some(json.now)]
               ELSE vol4,
               Val(json.uss_base_url), json.notify_for_operations,
               json.notify_for_constraints, FALSE, setref)
  IN IF vc # "" THEN [err |-> vc, m |-> m, ref |-> ref]
     ELSE IF json.uss_base_url = None \/ json.extents = None
             \/ json.extents = Some(InvalidVolume)
     THEN [err |-> "InvalidRequest", m |-> m, ref |-> ref]
     ELSE [err |-> "",
           m |-> [m EXCEPT !.objs = DictSet(@, ref, sub),
                           !.sets = DictSet(@, setref, {})],
           ref |-> ref]

\* subscriptions.from_request: [err, m, ref]; on success the new Subscription
\* object is allocated at ref.  It shares the dependent_operations set object
\* of the existing Subscription.
subscriptions_from_request(m, id, json, owner, existing_subscription) ==
  LET existing == m.objs[Val(existing_subscription)]
      vc == VersionCheck(json, IF existing_subscription = None THEN None
                               ELSE Some(existing.version))
      vol4 == Val(json.extents)
      ref == NewRef(m.objs)
      setref == IF existing_subscription = None THEN NewRef(m.sets)
                ELSE existing.dependent_operations
      sub == Subscription(
               id, owner, RequestVersion(json),
               IF existing_subscription = None THEN 0 ELSE existing.notification_index,
               IF vol4.time_start = None THEN [vol4 EXCEPT !.time_start = Some(json.now)]
               ELSE vol4,
               Val(json.uss_base_url), json.notify_for_operations,
               json.notify_for_constraints, FALSE, setref)
  IN IF vc # "" THEN [err |-> vc, m |-> m, ref |-> ref]
     ELSE IF json.uss_base_url = None \/ json.extents = None
             \/ json.extents = Some(InvalidVolume)
     THEN [err |-> "InvalidRequest", m |-> m, ref |-> ref]
     ELSE [err |-> "",
           m |-> [m EXCEPT !.objs = DictSet(@, ref, sub),
                           !.sets = IF existing_subscription = None
                                    THEN DictSet(@, setref, {}) ELSE @],
           ref |-> ref]

\* PutSubscription, lines 46-49: load the Subscription, check the owner.
PutSubscription_start(m, l) ==
  LET existing_subscription == get_subscription(m, l.req.id)
  IN IF existing_subscription # None
        /\ m.objs[Val(existing_subscription)].owner # l.req.caller
     THEN Raise(m, l, "Forbidden")
     ELSE Goto(m, [l EXCEPT !.existing_subscription = existing_subscription],
               "from_request")

\* PutSubscription, lines 55-61: the response once upsert_subscription has
\* returned up = [exc, m].
PutSubscription_respond(l, ref, up) ==
  IF up.exc # "" THEN Raise(up.m, l, ServerError)
  ELSE [m |-> up.m,
        l |-> [l EXCEPT
                 !.pc = "done", !.sub = Some(ref),
                 !.status = IF l.existing_subscription # None THEN "OK" ELSE "Created",
                 !.body = [subscription |-> subscription_to_dict(up.m, ref, l.req.now),
                           operations |-> <<>>, constraints |-> <<>>]]]

\* PutSubscription, lines 52-53, storing the Subscription built with the
\* implicit flag of the existing Subscription.
PutSubscription_upsert_KeepFlag(m, l, r) ==
  IF r.err # "" THEN Raise(m, l, r.err)
  ELSE PutSubscription_respond(
         l, r.ref,
         upsert_subscription(
           [r.m EXCEPT !.objs[r.ref].version = @ + 1,
                       !.objs[r.ref].implicit_subscription =
                         IF l.existing_subscription = None THEN FALSE
                         ELSE m.objs[Val(l.existing_subscription)].implicit_subscription],
           r.ref))

\* PutSubscription, lines 52-53: bump the version of the Subscription built
\* (r is the result [err, m, ref] of from_request) and store it.
PutSubscription_upsert(m, l, r) ==
  IF r.err # "" THEN Raise(m, l, r.err)
  ELSE PutSubscription_respond(
         l, r.ref,
         upsert_subscription([r.m EXCEPT !.objs[r.ref].version = @ + 1], r.ref))

\* PutSubscription, lines 50-61: build the Subscription, bump its version,
\* store it, respond.
PutSubscription_from_request(m, l) ==
  PutSubscription_upsert(
    m, l, subscriptions_from_request(m, l.req.id, l.req, l.req.caller,
                                     l.existing_subscription))

PutSubscription_step(m, l) ==
  CASE l.pc = "start" -> PutSubscription_start(m, l)
    [] l.pc = "from_request" -> PutSubscription_from_request(m, l)

\* DeleteSubscription, lines 66-69: lines 70-71, the owner check, left out.
DeleteSubscription_start_NoOwnerCheck(m, l) ==
  LET old_subscription == get_subscription(m, l.req.id)
  IN IF old_subscription = None THEN Raise(m, l, "NotFound")
     ELSE Goto(m, [l EXCEPT !.existing_subscription = old_subscription], "delete_sub")

\* DeleteSubscription, lines 66-71: load the Subscription, check the owner.
DeleteSubscription_start(m, l) ==
  LET old_subscription == get_subscription(m, l.req.id)
  IN IF old_subscription = None THEN Raise(m, l, "NotFound")
     ELSE IF m.objs[Val(old_subscription)].owner # l.req.caller
     THEN Raise(m, l, "Forbidden")
     ELSE Goto(m, [l EXCEPT !.existing_subscription = old_subscription], "delete_sub")

\* DeleteSubscription, line 74: the response once delete_subscription has
\* returned del = [exc, m]; m is the memory before the call.
DeleteSubscription_respond(m, l, del) ==
  IF del.exc # "" THEN Raise(del.m, l, ServerError)
  ELSE [m |-> del.m,
        l |-> [l EXCEPT
                 !.pc = "done", !.status = "OK",
                 !.body = [subscription_reference |->
                             subscription_to_dict(m, Val(l.existing_subscription),
                                                  l.req.now)]]]

\* DeleteSubscription, lines 72-74: delete and respond.
DeleteSubscription_delete_sub(m, l) ==
  DeleteSubscription_respond(m, l, delete_subscription(m, l.req.id))

DeleteSubscription_step(m, l) ==
  CASE l.pc = "start" -> DeleteSubscription_start(m, l)
    [] l.pc = "delete_sub" -> DeleteSubscription_delete_sub(m, l)

\* ------------------------------------------------------------------------
\* The reading handlers.  They leave the store as it is, so each is the
\* response [status, body] it computes from memory m.
\* ------------------------------------------------------------------------
ReadResponse(status, body) == [status |-> status, body |-> body]

\* GetOperation
GetOperation(m, caller, id) ==
  IF get_operation(m, id) # None
  THEN ReadResponse("OK",
         [operation_reference |->
            operation_to_dict(Val(get_operation(m, id)),
                              caller = Val(get_operation(m, id)).owner)])
  ELSE ReadResponse("NotFound", None)

\* The references QueryOperations lists for the Operations found.
OperationReferences(operations, caller) ==
  [i \in 1..Len(operations) |->
     operation_to_dict(operations[i], operations[i].owner = caller)]

\* QueryOperations, lines 26-31: found is the result [exc, v] of
\* find_operations.
QueryOperations_respond(found, caller) ==
  IF found.exc # "" THEN ReadResponse(ServerError, None)
  ELSE ReadResponse("OK",
         [operation_references |-> OperationReferences(found.v, caller)])

\* QueryOperations: area_of_interest is Optional, an area that does not
\* parse is InvalidVolume.
QueryOperations(m, caller, area_of_interest) ==
  IF area_of_interest = None \/ Val(area_of_interest) = InvalidVolume
  THEN ReadResponse("InvalidRequest", None)
  ELSE QueryOperations_respond(find_operations(m, Val(area_of_interest)), caller)

\* GetSubscription, answered at time now.
GetSubscription(m, caller, id, now) ==
  IF get_subscription(m, id) # None
  THEN ReadResponse("OK",
         [subscription |-> subscription_to_dict(m, Val(get_subscription(m, id)), now)])
  ELSE ReadResponse("NotFound", None)

\* QuerySubscriptions, lines 25-29: found is the result [exc, v] of
\* find_subscriptions.
QuerySubscriptions_respond(m, found, now) ==
  IF found.exc # "" THEN ReadResponse(ServerError, None)
  ELSE ReadResponse("OK",
         [subscriptions |->
            [i \in 1..Len(found.v) |-> subscription_to_dict(m, found.v[i], now)]])

\* QuerySubscriptions, answered at time now: the subscriptions of the caller.
QuerySubscriptions(m, caller, area_of_interest, now) ==
  IF area_of_interest = None \/ Val(area_of_interest) = InvalidVolume
  THEN ReadResponse("InvalidRequest", None)
  ELSE QuerySubscriptions_respond(
         m, find_subscriptions(m, Val(area_of_interest), Some(caller)), now)

\* ------------------------------------------------------------------------
\* authorization.py.  An access token is Optional (the Authorization
\* header); a token present is a record
\*   signature : whether jwt.decode accepts it (signature, audience, nbf, exp)
\*   scope     : Optional set of the scopes of its space-separated scope claim
\*   client_id : the identity it carries
\* The server's public key and audience are configured.
\* ------------------------------------------------------------------------
STRATEGIC_COORDINATION == "utm.strategic_coordination"
CONSTRAINT_CONSUMPTION == "utm.constraint_consumption"

\* The scopes the decorator of each endpoint permits.
PermittedScopes(kind) ==
  IF kind \in {"PutOperation", "DeleteOperation"} THEN {STRATEGIC_COORDINATION}
  ELSE {STRATEGIC_COORDINATION, CONSTRAINT_CONSUMPTION}

\* requires_scope, the wrapper up to line 86: [err, client_id].  A token
\* without a scope claim raises KeyError at line 66, which no except clause
\* catches.
requires_scope(permitted_scopes, token) ==
  IF token = None THEN [err |-> "Unauthenticated", client_id |-> None]
  ELSE IF ~ Val(token).signature THEN [err |-> "Unauthenticated", client_id |-> None]
  ELSE IF Val(token).scope = None THEN [err |-> ServerError, client_id |-> None]
  ELSE IF permitted_scopes \cap Val(Val(token).scope) = {}
  THEN [err |-> "Forbidden", client_id |-> None]
  ELSE [err |-> "", client_id |-> Some(Val(token).client_id)]

\* One step of the endpoint function of l.req.
Endpoint(m, l) ==
  CASE l.req.kind = "PutOperation" -> PutOperation_step(m, l)
    [] l.req.kind = "DeleteOperation" -> DeleteOperation_step(m, l)
    [] l.req.kind = "PutSubscription" -> PutSubscription_step(m, l)
    [] l.req.kind = "DeleteSubscription" -> DeleteSubscription_step(m, l)

\* requires_scope, line 88: the endpoint function is called once the token
\* is accepted, as the caller the token names.
Authorized(m, l, auth) ==
  IF auth.err # "" THEN Raise(m, l, auth.err)
  ELSE Endpoint(m, [l EXCEPT !.req.caller = Val(auth.client_id)])

\* One step of the handler of l.req: the first one passes the wrapper of
\* requires_scope.
HandlerStep(m, l) ==
  IF l.pc = "start"
  THEN Authorized(m, l, requires_scope(PermittedScopes(l.req.kind), l.req.token))
  ELSE Endpoint(m, l)

\* A handler run from its first statement to its response, no other handler
\* running in between.
RECURSIVE RunHandler(_)
RunHandler(r) ==
  IF r.l.pc \in {"done", "blocked"} THEN r
  ELSE RunHandler(HandlerStep(r.m, r.l))

\* ------------------------------------------------------------------------
\* State
\* ------------------------------------------------------------------------
VARIABLES
  scd_storage,   \* app.scd_storage: [subscriptions, operations, cells]
  heap,          \* the Python objects the storage and the handlers hold: [objs, sets]
  handlers,      \* the local state of each request handler thread
  requests       \* the number of requests received so far

vars == <<scd_storage, heap, handlers, requests>>

Mem ==
  [subscriptions |-> scd_storage.subscriptions, operations |-> scd_storage.operations,
   cells |-> scd_storage.cells, objs |-> heap.objs, sets |-> heap.sets]

Idle == [pc |-> "idle"]

\* MemoryScdStorage.__init__: three empty dicts.
Init ==
  /\ scd_storage = [subscriptions |-> <<>>, operations |-> <<>>, cells |-> <<>>]
  /\ heap = [objs |-> <<>>, sets |-> <<>>]
  /\ handlers = [h \in Handlers |-> Idle]
  /\ requests = 0

\* OVNs are opaque and never compared by the code: between requests the OVN
\* of a stored Operation is renamed to a token fixed by the Operation's ID.
OvnOf(o) == IF o = "op1" THEN 1 ELSE 2

\* Garbage collection and renaming once no handler runs: only the stored
\* Subscription objects are reachable; the object of Subscription s is put
\* at reference s and its dependent_operations set at reference s.
Canon(m) ==
  LET obj(s) == m.objs[m.subscriptions[s]]
  IN [m EXCEPT
        !.subscriptions = [s \in DOMAIN m.subscriptions |-> s],
        !.objs = [s \in DOMAIN m.subscriptions |->
                    [obj(s) EXCEPT !.dependent_operations = s]],
        !.sets = [s \in DOMAIN m.subscriptions |->
                    m.sets[obj(s).dependent_operations]],
        !.operations = [o \in DOMAIN m.operations |->
                          [m.operations[o] EXCEPT !.ovn = OvnOf(o)]]]

\* The stored Subscription s as a value, its dependent_operations dereferenced.
SubOf(m, s) ==
  LET obj == m.objs[m.subscriptions[s]]
  IN [obj EXCEPT !.dependent_operations = m.sets[obj.dependent_operations]]

\* The store as a value: what a sequence of reads can observe.
View(m) ==
  [subscriptions |-> [s \in DOMAIN m.subscriptions |-> SubOf(m, s)],
   operations |-> m.operations,
   cells |-> m.cells]

\* The bound on versions.
VersionsBounded(m) ==
  /\ \A s \in DOMAIN m.subscriptions : m.objs[m.subscriptions[s]].version <= MaxVersion
  /\ \A o \in DOMAIN m.operations : m.operations[o].version <= MaxVersion

\* ------------------------------------------------------------------------
\* Requests
\* ------------------------------------------------------------------------
T(n) == Some(n)
\* Volumes of Operation extents; the envelope of <<VolA, VolB>> is VolBig.
VolA == Volume4(T(1), T(2), T(1), T(1), {1})
VolB == Volume4(T(2), T(3), T(1), T(2), {2})
VolBig == Volume4(T(1), T(3), T(1), T(2), {1, 2})
VolOpen == Volume4(T(1), None, T(1), T(1), {1})
\* Volumes of Subscription extents.  VolNoStart becomes VolA once its
\* time_start is defaulted to the current time.
VolNoEnd == Volume4(T(1), None, T(1), T(2), {1, 2})
VolNoStart == Volume4(None, T(2), T(1), T(1), {1})
\* A volume over the cell of VolB that begins after VolB and VolBig end.
VolLate == Volume4(T(4), T(5), T(1), T(1), {2})
\* A volume whose time_start is after its time_end.
VolInverted == Volume4(T(2), T(1), T(1), T(1), {1})
\* A volume over the cell of VolA that begins after VolA ends and as VolBig
\* ends.
VolAfterA == Volume4(T(3), T(3), T(1), T(1), {1})
OldVersions == {Some(v) : v \in 0..MaxVersion}
\* The old_version of a PUT of an Operation.  An Operation is stored with
\* old_version + 2 (operations.py 83, operation_endpoints.py 86), an even
\* version: the odd value 1 stands for every old_version that matches no
\* stored Operation.
OperationOldVersions == {Some(v) : v \in {w \in 0..MaxVersion : w = 1 \/ w % 2 = 0}}

\* Each USS cites its own callback URL.
UrlOf(caller) == IF caller = "uss1" THEN "url1" ELSE "url2"

\* The token of a USS with the given scopes.
AccessToken(caller, scopes) ==
  Some([signature |-> TRUE, scope |-> Some(scopes), client_id |-> caller])

NewSubscription(caller) ==
  Some([uss_base_url |-> Some(UrlOf(caller)), notify_for_constraints |-> FALSE])

\* Well-formed PUTs of an Operation: one or two volumes, bound to a cited
\* subscription or to a new implicit one, any old_version.
PutOperationBase ==
  {[kind |-> "PutOperation", id |-> id, caller |-> c,
    token |-> AccessToken(c, {STRATEGIC_COORDINATION}), extents |-> e,
    subscription_id |-> b, new_subscription |-> IF b = None THEN NewSubscription(c) ELSE None,
    old_version |-> v, uss_base_url |-> Some(UrlOf(c))] :
     id \in OpIds, c \in Callers, e \in {<<VolA>>, <<VolA, VolB>>},
     b \in {None} \cup {Some(x) : x \in SubIds}, v \in OperationOldVersions}

\* The same with one defect each: no or invalid extents, an unbounded
\* volume, no binding, no uss_base_url, no old_version.
PutOperationDefects ==
  UNION {
    {[r EXCEPT !.extents = e] :
       e \in {<<>>, <<InvalidVolume>>, <<VolOpen>>, <<VolA, VolOpen>>}}
    \cup {[r EXCEPT !.subscription_id = None, !.new_subscription = None],
          [r EXCEPT !.subscription_id = None,
                    !.new_subscription = Some([uss_base_url |-> None,
                                               notify_for_constraints |-> FALSE])],
          [r EXCEPT !.uss_base_url = None],
          [r EXCEPT !.old_version = None]} :
    r \in {x \in PutOperationBase :
            /\ x.id = "op1" /\ x.extents = <<VolA>>
            /\ x.subscription_id \in {None, Some(1)}
            /\ x.old_version \in {Some(0), Some(2)}}}

PutOperationRequests == PutOperationBase \cup PutOperationDefects

DeleteOperationRequests ==
  {[kind |-> "DeleteOperation", id |-> id, caller |-> c,
    token |-> AccessToken(c, {STRATEGIC_COORDINATION})] :
     id \in OpIds, c \in Callers}

PutSubscriptionBase ==
  {[kind |-> "PutSubscription", id |-> id, caller |-> c,
    token |-> AccessToken(c, {STRATEGIC_COORDINATION}), extents |-> Some(e),
    old_version |-> v, uss_base_url |-> Some(UrlOf(c)), notify_for_operations |-> TRUE,
    notify_for_constraints |-> FALSE, now |-> Now] :
     id \in SubIds, c \in Callers, e \in {VolA, VolBig, VolNoEnd, VolLate},
     v \in OldVersions}

PutSubscriptionDefects ==
  UNION {
    {[r EXCEPT !.extents = e] : e \in {None, Some(InvalidVolume), Some(VolNoStart)}}
    \cup {[r EXCEPT !.uss_base_url = None], [r EXCEPT !.old_version = None]} :
    r \in {x \in PutSubscriptionBase :
            x.id = 1 /\ x.extents = Some(VolA) /\ x.old_version \in {Some(0), Some(2)}}}

\* A PUT that creates a Subscription over a volume whose time_start is after
\* its time_end.
PutSubscriptionInverted ==
  {[r EXCEPT !.extents = Some(VolInverted)] :
     r \in {x \in PutSubscriptionBase :
             /\ x.id = 1 /\ x.caller = "uss1" /\ x.extents = Some(VolA)
             /\ x.old_version = Some(0)}}

\* A PUT that creates a Subscription over VolAfterA.
PutSubscriptionAfter ==
  {[r EXCEPT !.extents = Some(VolAfterA)] :
     r \in {x \in PutSubscriptionBase :
             /\ x.id = 2 /\ x.caller = "uss2" /\ x.extents = Some(VolA)
             /\ x.old_version = Some(0)}}

PutSubscriptionRequests ==
  PutSubscriptionBase \cup PutSubscriptionDefects \cup PutSubscriptionInverted
  \cup PutSubscriptionAfter

DeleteSubscriptionRequests ==
  {[kind |-> "DeleteSubscription", id |-> id, caller |-> c,
    token |-> AccessToken(c, {STRATEGIC_COORDINATION}), now |-> Now] :
     id \in SubIds, c \in Callers}

\* The other tokens a request of a USS may carry: none, one that jwt.decode
\* rejects, one without a scope claim, one with an empty scope claim, one
\* with the scope of constraint consumers, one with both scopes.
OtherTokens(caller) ==
  {None,
   Some([signature |-> FALSE, scope |-> Some({STRATEGIC_COORDINATION}),
         client_id |-> caller]),
   Some([signature |-> TRUE, scope |-> None, client_id |-> caller]),
   AccessToken(caller, {""}),
   AccessToken(caller, {CONSTRAINT_CONSUMPTION}),
   AccessToken(caller, {STRATEGIC_COORDINATION, CONSTRAINT_CONSUMPTION})}

\* The requests rs, each with every other token of its caller.
WithOtherTokens(rs) ==
  UNION {{[r EXCEPT !.token = t] : t \in OtherTokens(r.caller)} : r \in rs}

PutOperationOtherTokens ==
  WithOtherTokens({r \in PutOperationBase :
                     /\ r.id = "op1" /\ r.extents = <<VolA>>
                     /\ r.subscription_id = None
                     /\ r.old_version = Some(0)})
DeleteOperationOtherTokens ==
  WithOtherTokens({r \in DeleteOperationRequests : r.id = "op1"})
PutSubscriptionOtherTokens ==
  WithOtherTokens({r \in PutSubscriptionBase :
                     /\ r.id = 1 /\ r.extents = Some(VolA)
                     /\ r.old_version = Some(0)})
DeleteSubscriptionOtherTokens ==
  WithOtherTokens({r \in DeleteSubscriptionRequests : r.id = 1})

\* The requests each endpoint is served with.
PutOperationServed == PutOperationRequests \cup PutOperationOtherTokens
DeleteOperationServed == DeleteOperationRequests \cup DeleteOperationOtherTokens
PutSubscriptionServed == PutSubscriptionRequests \cup PutSubscriptionOtherTokens
DeleteSubscriptionServed == DeleteSubscriptionRequests \cup DeleteSubscriptionOtherTokens

\* ------------------------------------------------------------------------
\* Serial execution: one request at a time, each handler run to its response.
\* ------------------------------------------------------------------------
Outcome(req) == RunHandler([m |-> Mem, l |-> StartLocal(req)])

\* The store and the heap become those of memory m.
Install(m) ==
  /\ scd_storage' = [subscriptions |-> m.subscriptions,
                     operations |-> m.operations, cells |-> m.cells]
  /\ heap' = [objs |-> m.objs, sets |-> m.sets]

\* The handler has run to its response r.l, leaving memory r.m.
Served_as(r) ==
  /\ r.l.pc = "done"
  /\ VersionsBounded(r.m)
  /\ Install(Canon(r.m))

Serve(req) ==
  /\ \A h \in Handlers : handlers[h] = Idle
  /\ Served_as(Outcome(req))
  /\ requests' = requests + 1
  /\ UNCHANGED handlers

PutOperation ==
  /\ requests < MaxRequests
  /\ \E req \in PutOperationServed : Serve(req)
DeleteOperation ==
  /\ requests < MaxRequests
  /\ \E req \in DeleteOperationServed : Serve(req)
PutSubscription ==
  /\ requests < MaxRequests
  /\ \E req \in PutSubscriptionServed : Serve(req)
DeleteSubscription ==
  /\ requests < MaxRequests
  /\ \E req \in DeleteSubscriptionServed : Serve(req)

Next == PutOperation \/ DeleteOperation \/ PutSubscription \/ DeleteSubscription

Spec == Init /\ [][Next]_vars

\* ------------------------------------------------------------------------
\* Concurrent execution.  webapp.run() serves each request on a thread of
\* its own and no lock guards app.scd_storage: the statement groups of two
\* handlers interleave.  After up to MaxSetup requests served one at a
\* time, each handler thread receives one request.
\* ------------------------------------------------------------------------
\* The references a running handler holds.
HeldRefs(l) ==
  IF l.pc \in {"idle", "done"} THEN {}
  ELSE {Val(o) : o \in {l.sub, l.existing_subscription} \ {None}}

\* Garbage collection: the objects reachable from the store or a handler.
Collect(m, ls) ==
  LET liveObjs == {m.subscriptions[s] : s \in DOMAIN m.subscriptions}
                  \cup UNION {HeldRefs(ls[h]) : h \in DOMAIN ls}
      liveSets == {m.objs[r].dependent_operations : r \in liveObjs}
  IN [m EXCEPT !.objs = [r \in liveObjs |-> m.objs[r]],
               !.sets = [r \in liveSets |-> m.sets[r]]]

\* What a handler leaves behind once it has responded.
Response(l) == [pc |-> "done", req |-> l.req, status |-> l.status, body |-> l.body]

ConcurrentRequests ==
  {r \in PutOperationBase :
     /\ r.caller = "uss1" /\ r.extents = <<VolA>>
     /\ r.subscription_id \in {None, Some(1)}
     /\ r.old_version \in {Some(0), Some(2)}}
  \cup {r \in DeleteOperationRequests : r.caller = "uss1"}
  \cup {r \in PutSubscriptionBase :
          /\ r.caller = "uss1" /\ r.id = 1 /\ r.extents = Some(VolBig)
          /\ r.old_version \in {Some(0), Some(2)}}
  \cup {r \in DeleteSubscriptionRequests : r.caller = "uss1" /\ r.id = 1}

\* A request served with no other request in progress.
Setup ==
  /\ requests < MaxSetup
  /\ \E req \in ConcurrentRequests : Serve(req)

\* A handler thread receives a request.  The threads are interchangeable:
\* the idle thread of least number takes the request.
Receive(h) ==
  /\ handlers[h] = Idle
  /\ \A g \in Handlers : g < h => handlers[g] # Idle
  /\ \E req \in ConcurrentRequests :
       handlers' = [handlers EXCEPT ![h] = StartLocal(req)]
  /\ UNCHANGED <<scd_storage, heap, requests>>

\* Handler h has executed a statement group with result r = [m, l].
Step_as(h, r) ==
  /\ r.l.pc # "blocked"
  /\ handlers' = [handlers EXCEPT ![h] = IF r.l.pc = "done" THEN Response(r.l) ELSE r.l]
  /\ Install(Collect(r.m, handlers'))

\* A handler thread executes its next statement group.
Step(h) ==
  /\ handlers[h].pc \notin {"idle", "done"}
  /\ Step_as(h, HandlerStep(Mem, handlers[h]))
  /\ UNCHANGED requests

NextConc == Setup \/ (\E h \in Handlers : Receive(h)) \/ (\E h \in Handlers : Step(h))

SpecConc == Init /\ [][NextConc]_vars

\* ------------------------------------------------------------------------
\* Properties.  A property of the form "every request that ... answers ..."
\* is stated over every reachable state and every request the model serves
\* in it: Outcome(req) is the handler run on the current store.
\* ------------------------------------------------------------------------
Requests ==
  PutOperationRequests \cup DeleteOperationRequests
  \cup PutSubscriptionRequests \cup DeleteSubscriptionRequests
OperationRequests == PutOperationRequests \cup DeleteOperationRequests
SubscriptionRequests == PutSubscriptionRequests \cup DeleteSubscriptionRequests

\* req is served in the current state.
Served(req) ==
  /\ requests < MaxRequests
  /\ \A h \in Handlers : handlers[h] = Idle
  /\ Outcome(req).l.pc = "done"
  /\ VersionsBounded(Outcome(req).m)

StatusOf(req) == Outcome(req).l.status
Succeeds(req) == StatusOf(req) \in {"OK", "Created"}
Unchanged(req) == View(Outcome(req).m) = View(Mem)

StoredSubs == DOMAIN scd_storage.subscriptions
StoredOps == DOMAIN scd_storage.operations
Sub(s) == SubOf(Mem, s)
Op(o) == scd_storage.operations[o]
NoHandlerRuns == \A h \in Handlers : handlers[h].pc \in {"idle", "done"}

\* Containment of volumes as the data model defines it: the time and
\* altitude intervals of w lie inside those of v, an absent endpoint being
\* unbounded, and the cells of w are cells of v.
LowerCovers(a, b) == a = None \/ (b # None /\ Val(a) <= Val(b))
UpperCovers(a, b) == a = None \/ (b # None /\ Val(b) <= Val(a))
Encloses(v, w) ==
  /\ LowerCovers(v.time_start, w.time_start) /\ UpperCovers(v.time_end, w.time_end)
  /\ LowerCovers(v.altitude_lo, w.altitude_lo) /\ UpperCovers(v.altitude_hi, w.altitude_hi)
  /\ w.cells \subseteq v.cells

\* C1: every stored Operation names a stored Subscription whose vol4
\* contains the Operation's vol4.
C1_BindingInvariant ==
  \A o \in StoredOps :
    /\ Op(o).subscription \in StoredSubs
    /\ Encloses(Sub(Op(o).subscription).vol4, Op(o).vol4)

\* The old_version of a PUT does not match the stored entity.
StaleOperationPut(req) ==
  IF req.id \in StoredOps
  THEN req.old_version # Some(Op(req.id).version)
  ELSE req.old_version \notin {None, Some(0)}

StaleSubscriptionPut(req) ==
  IF req.id \in StoredSubs
  THEN req.old_version # Some(Sub(req.id).version)
  ELSE req.old_version \notin {None, Some(0)}

\* C2: a PUT with a stale old_version fails (with VersionConflict unless an
\* earlier check of the handler rejects it) and leaves the store unchanged.
C2_StalePutIsNoOp ==
  /\ \A req \in PutOperationRequests :
       Served(req) /\ StaleOperationPut(req) =>
         StatusOf(req) \in Errors \ {"NotFound"} /\ Unchanged(req)
  /\ \A req \in PutSubscriptionRequests :
       Served(req) /\ StaleSubscriptionPut(req) =>
         StatusOf(req) \in Errors \ {"NotFound"} /\ Unchanged(req)

\* C3: of two PUTs of the same entity carrying the same old_version, handled
\* by two handler threads, at most one succeeds.
C3_OnePutWins ==
  \A h, g \in Handlers :
    (/\ h # g
     /\ handlers[h].pc = "done" /\ handlers[g].pc = "done"
     /\ handlers[h].req.kind \in {"PutOperation", "PutSubscription"}
     /\ handlers[h].req.kind = handlers[g].req.kind
     /\ handlers[h].req.id = handlers[g].req.id
     /\ handlers[h].req.old_version = handlers[g].req.old_version)
    => ~ (/\ handlers[h].status \in {"OK", "Created"}
          /\ handlers[g].status \in {"OK", "Created"})

\* PUTs and DELETEs of a stored Operation by a caller who is not its owner.
CrossOwnerRequests ==
  {req \in OperationRequests :
     req.id \in StoredOps /\ Op(req.id).owner # req.caller}

\* The extents of a PUT of an Operation parse and combine into an envelope.
ExtentsParse(req) ==
  /\ req.extents # <<>>
  /\ \A i \in 1..Len(req.extents) : req.extents[i] # InvalidVolume
  /\ combine_volume4s(req.extents).exc = ""

\* C4 as stated: every PUT or DELETE of an Operation by a caller other than
\* its owner fails with Forbidden and leaves the store unchanged.
C4_AlwaysForbidden ==
  \A req \in CrossOwnerRequests :
    Served(req) => StatusOf(req) = "Forbidden" /\ Unchanged(req)

\* C4 (amended): a DELETE, or a PUT whose extents parse into an envelope, of
\* an Operation by a caller other than its owner fails with Forbidden; a PUT
\* whose extents do not parse fails earlier, with InvalidRequest or a server
\* error; in every case the store is unchanged.
C4_CrossOwnerGuard ==
  \A req \in CrossOwnerRequests :
    Served(req) =>
      /\ Unchanged(req)
      /\ IF req.kind = "DeleteOperation" \/ ExtentsParse(req)
         THEN StatusOf(req) = "Forbidden"
         ELSE StatusOf(req) \in {"InvalidRequest", ServerError}

\* A state in which a PUT citing a stored subscription and a DELETE, both by
\* a caller other than the Operation's owner, are answered Forbidden.
C4_Witness ==
  /\ \E req \in CrossOwnerRequests :
       /\ req.kind = "PutOperation" /\ Served(req) /\ StatusOf(req) = "Forbidden"
       /\ req.subscription_id # None /\ Val(req.subscription_id) \in StoredSubs
  /\ \E req \in CrossOwnerRequests :
       req.kind = "DeleteOperation" /\ Served(req) /\ StatusOf(req) = "Forbidden"

\* PUTs of an Operation, by its owner or of a new ID, that cite a stored
\* subscription whose vol4 does not contain the envelope of the extents.
NotContainedPuts ==
  {req \in PutOperationRequests :
     /\ ExtentsParse(req)
     /\ req.id \in StoredOps => Op(req.id).owner = req.caller
     /\ req.subscription_id # None /\ Val(req.subscription_id) \in StoredSubs
     /\ ~ Encloses(Sub(Val(req.subscription_id)).vol4,
                   combine_volume4s(req.extents).v)}

\* C5: such a PUT fails with InvalidRequest and mutates neither the
\* Operation nor the cited subscription.
C5_ContainmentGuard ==
  \A req \in NotContainedPuts :
    Served(req) =>
      LET s == Val(req.subscription_id)
          after == View(Outcome(req).m)
      IN /\ StatusOf(req) = "InvalidRequest"
         /\ after.operations = View(Mem).operations
         /\ after.subscriptions[s].version = Sub(s).version
         /\ after.subscriptions[s].dependent_operations = Sub(s).dependent_operations

\* C6: a mutating request answered with an error leaves the store unchanged.
C6_FailedWriteIsNoOp ==
  \A req \in Requests :
    Served(req) /\ StatusOf(req) \in Errors => Unchanged(req)

\* C7: a successful DELETE of the only Operation bound to an implicit
\* subscription removes that subscription from the store.
C7_ImplicitCascade ==
  \A req \in DeleteOperationRequests :
    (/\ Served(req) /\ Succeeds(req)
     /\ req.id \in StoredOps
     /\ Op(req.id).subscription \in StoredSubs
     /\ Sub(Op(req.id).subscription).implicit_subscription
     /\ \A o \in StoredOps \ {req.id} : Op(o).subscription # Op(req.id).subscription)
    => Op(req.id).subscription \notin DOMAIN Outcome(req).m.subscriptions

\* C8: dependent_operations and the Operations' bindings agree in both
\* directions.
C8_DependentsAgree ==
  /\ \A o \in StoredOps :
       /\ Op(o).subscription \in StoredSubs
       /\ o \in Sub(Op(o).subscription).dependent_operations
  /\ \A s \in StoredSubs : \A o \in Sub(s).dependent_operations :
       o \in StoredOps /\ Op(o).subscription = s

\* C9: the entity a successful PUT stores has version 1 when the PUT created
\* it and the previous version plus one when the PUT mutated it.
C9_VersionStep ==
  /\ \A req \in PutOperationRequests :
       Served(req) /\ Succeeds(req) =>
         Outcome(req).m.operations[req.id].version =
           IF req.id \in StoredOps THEN Op(req.id).version + 1 ELSE 1
  /\ \A req \in PutSubscriptionRequests :
       Served(req) /\ Succeeds(req) =>
         SubOf(Outcome(req).m, req.id).version =
           IF req.id \in StoredSubs THEN Sub(req.id).version + 1 ELSE 1

\* Handler h is inside a PUT of an Operation and the store is in an
\* intermediate state of it: the Operation is stored and the implicit
\* subscription it is bound to not yet, or the cited subscription's
\* dependent_operations or version is already changed and the Operation not
\* yet stored.
IntermediatePut(h) ==
  /\ handlers[h].pc \notin {"idle", "done"}
  /\ handlers[h].req.kind = "PutOperation"
  /\ \/ handlers[h].pc = "upsert_sub" /\ handlers[h].req.subscription_id = None
     \/ /\ handlers[h].pc \in {"bump_version", "from_request"}
        /\ handlers[h].req.subscription_id # None

\* The next statement group of handler g reads the store: get_operation or
\* get_subscription at the start of a handler and in DeleteOperation,
\* find_subscriptions before the response.
ReadsStore(g) == handlers[g].pc \in {"start", "get_sub", "respond"}

\* C10: no handler reads the store while the store is in an intermediate
\* state of another handler's PUT of an Operation.
C10_PutIsCriticalSection ==
  [][\A h, g \in Handlers :
       h # g /\ IntermediatePut(h) /\ ReadsStore(g) => handlers'[g] = handlers[g]]_vars


\* Areas of interest of the volume queries: absent, unparsable, or a volume.
QueryAreas ==
  {None, Some(InvalidVolume)}
  \cup {Some(v) : v \in {VolA, VolB, VolBig, VolOpen, VolNoEnd, VolNoStart}}

\* The reference of an Operation carries its OVN exactly when the caller
\* owns the Operation.
OvnIffOwner(reference, operation, caller) ==
  /\ reference.id = operation.id
  /\ IF caller = operation.owner THEN reference.ovn = Some(operation.ovn)
     ELSE reference.ovn = None

\* The handler of req has run to r = [m, l] and the request is served.
ServedAs(r) ==
  /\ requests < MaxRequests
  /\ \A h \in Handlers : handlers[h] = Idle
  /\ r.l.pc = "done"
  /\ VersionsBounded(r.m)
SucceedsAs(r) == ServedAs(r) /\ r.l.status \in {"OK", "Created"}

\* The Operation a successful PUT or DELETE of an Operation, run to
\* r = [m, l], answers about: the one the PUT stored, the one the DELETE
\* removed.
AnsweredOperation(req, r) ==
  IF req.kind = "PutOperation" THEN r.m.operations[req.id] ELSE Op(req.id)

\* Every reference of the response of a volume query is the owner's view
\* for the owner and the view without OVN for any other caller.
QueryOvnIffOwner(response, caller) ==
  response.status = "OK" =>
    \A i \in DOMAIN response.body.operation_references :
      /\ response.body.operation_references[i].id \in StoredOps
      /\ OvnIffOwner(response.body.operation_references[i],
                     Op(response.body.operation_references[i].id), caller)

\* The same for the response of a successful PUT or DELETE run to r.
MutationOvnIffOwner(req, r) ==
  SucceedsAs(r) =>
    OvnIffOwner(r.l.body.operation_reference, AnsweredOperation(req, r), req.caller)

\* C11: the response to a GET, a volume query, a PUT or a DELETE of
\* Operations carries an Operation's OVN if and only if the caller is the
\* owner of that Operation.
C11_OvnConfidentiality ==
  /\ \A c \in Callers, id \in StoredOps :
       /\ GetOperation(Mem, c, id).status = "OK"
       /\ OvnIffOwner(GetOperation(Mem, c, id).body.operation_reference, Op(id), c)
  /\ \A c \in Callers, a \in QueryAreas :
       QueryOvnIffOwner(QueryOperations(Mem, c, a), c)
  /\ \A req \in OperationRequests :
       MutationOvnIffOwner(req, Outcome(req))

\* A state with an Operation that a GET and a volume query show to its
\* owner with the OVN and to the other USS without it, and that its owner
\* replaces with a PUT answered with the new OVN.
C11_Witness ==
  \E id \in StoredOps, c \in Callers :
    /\ Op(id).owner # c
    /\ GetOperation(Mem, c, id).body.operation_reference.ovn = None
    /\ GetOperation(Mem, Op(id).owner, id).body.operation_reference.ovn = Some(Op(id).ovn)
    /\ \E a \in QueryAreas :
         /\ QueryOperations(Mem, c, a).status = "OK"
         /\ \E i \in DOMAIN QueryOperations(Mem, c, a).body.operation_references :
              /\ QueryOperations(Mem, c, a).body.operation_references[i].id = id
              /\ QueryOperations(Mem, c, a).body.operation_references[i].ovn = None
    /\ \E req \in PutOperationRequests :
         /\ req.id = id /\ Served(req) /\ StatusOf(req) = "OK"
         /\ Outcome(req).l.body.operation_reference.ovn # Some(Op(id).ovn)
         /\ Outcome(req).l.body.operation_reference.ovn # None

\* Overlap of two volumes in time and altitude as the data model defines
\* it: the closed intervals meet, an absent endpoint being unbounded.
Meets(lo1, hi1, lo2, hi2) ==
  /\ lo1 = None \/ hi2 = None \/ Val(lo1) <= Val(hi2)
  /\ lo2 = None \/ hi1 = None \/ Val(lo2) <= Val(hi1)
Overlaps(v, w) ==
  /\ Meets(v.time_start, v.time_end, w.time_start, w.time_end)
  /\ Meets(v.altitude_lo, v.altitude_hi, w.altitude_lo, w.altitude_hi)
Intersects(v, w) == v.cells \cap w.cells # {} /\ Overlaps(v, w)

\* The subscriptions of memory m that intersect volume v.
SubsIntersecting(m, v) ==
  {s \in DOMAIN m.subscriptions : Intersects(v, SubOf(m, s).vol4)}

\* The entries <<url, subscription, notification_index>> of a subscribers
\* list, and their number.
RECURSIVE SumLen(_)
SumLen(subscribers) ==
  IF subscribers = <<>> THEN 0
  ELSE Len(Head(subscribers).subscriptions) + SumLen(Tail(subscribers))
Listed(subscribers) ==
  UNION {{<<subscribers[i].uss_base_url,
            subscribers[i].subscriptions[j].subscription_id,
            subscribers[i].subscriptions[j].notification_index>> :
            j \in DOMAIN subscribers[i].subscriptions} : i \in DOMAIN subscribers}

\* The subscribers list names exactly the subscriptions of memory m that
\* intersect volume v: one entry per URL, each subscription once, under its
\* URL and with its notification_index in m.
NamesExactly(subscribers, m, v) ==
  /\ \A i, j \in DOMAIN subscribers :
       subscribers[i].uss_base_url = subscribers[j].uss_base_url => i = j
  /\ Listed(subscribers) =
       {<<SubOf(m, s).uss_base_url, s, SubOf(m, s).notification_index>> :
          s \in SubsIntersecting(m, v)}
  /\ SumLen(subscribers) = Cardinality(SubsIntersecting(m, v))

\* The subscribers list of a successful PUT run to r = [m, l] names exactly
\* the subscriptions of r.m that intersect the Operation stored.
PutNamesExactly(req, r) ==
  SucceedsAs(r) => NamesExactly(r.l.body.subscribers, r.m, r.m.operations[req.id].vol4)

\* C12: the subscribers list of a successful PUT of an Operation names
\* exactly the subscriptions in the store after the mutation whose cells
\* intersect the Operation's envelope and whose time and altitude overlap
\* it, whoever owns them: one entry per uss_base_url, each subscription once
\* with its current notification_index.
C12_PutSubscribers ==
  \A req \in PutOperationRequests : PutNamesExactly(req, Outcome(req))

\* A successful PUT of an Operation bound to a subscription of another
\* owner, which the subscribers list names, while a stored subscription
\* that begins after the Operation ends is not named.
C12_Witness ==
  \E req \in PutOperationRequests :
    /\ Served(req) /\ Succeeds(req)
    /\ req.subscription_id # None
    /\ SubOf(Outcome(req).m, Val(req.subscription_id)).owner # req.caller
    /\ \E i \in DOMAIN Outcome(req).l.body.subscribers :
         Outcome(req).l.body.subscribers[i].subscriptions[1].subscription_id
           = Val(req.subscription_id)
    /\ \E s \in DOMAIN Outcome(req).m.subscriptions :
         /\ SubOf(Outcome(req).m, s).vol4 = VolLate
         /\ VolLate.cells \cap Outcome(req).m.operations[req.id].vol4.cells # {}
         /\ s \notin SubsIntersecting(Outcome(req).m, Outcome(req).m.operations[req.id].vol4)

\* The subscription a stored Operation is bound to is implicit and the
\* Operation is its only dependent.
SoleDependentOfImplicit(o) ==
  /\ Op(o).subscription \in StoredSubs
  /\ Sub(Op(o).subscription).implicit_subscription
  /\ Sub(Op(o).subscription).dependent_operations = {o}

\* The subscribers list of a successful DELETE run to r = [m, l] names
\* exactly the subscriptions of r.m that intersect the deleted Operation, and
\* not the implicit subscription whose only dependent it was.
DeleteNamesExactly(req, r) ==
  SucceedsAs(r) =>
    /\ NamesExactly(r.l.body.subscribers, r.m, Op(req.id).vol4)
    /\ SoleDependentOfImplicit(req.id) =>
         \A i \in DOMAIN r.l.body.subscribers :
           \A j \in DOMAIN r.l.body.subscribers[i].subscriptions :
             r.l.body.subscribers[i].subscriptions[j].subscription_id
               # Op(req.id).subscription

\* C13: the subscribers list of a successful DELETE of an Operation names
\* exactly the subscriptions that intersect the deleted Operation's volume in
\* the store as the DELETE leaves it: a subscription the DELETE cascaded is
\* not named, the others are, the Operation's explicit subscription included.
C13_DeleteSubscribers ==
  \A req \in DeleteOperationRequests : DeleteNamesExactly(req, Outcome(req))

\* A DELETE of an Operation that cascades the Operation's implicit
\* subscription and names the overlapping subscription of another USS only.
C13_Witness ==
  \E req \in DeleteOperationRequests :
    /\ Served(req) /\ Succeeds(req)
    /\ SoleDependentOfImplicit(req.id)
    /\ Op(req.id).subscription \notin DOMAIN Outcome(req).m.subscriptions
    /\ Len(Outcome(req).l.body.subscribers) = 1
    /\ Outcome(req).l.body.subscribers[1].uss_base_url # UrlOf(req.caller)
    /\ Outcome(req).l.body.subscribers[1].subscriptions[1].subscription_id
         \in DOMAIN Outcome(req).m.subscriptions

\* The subscriptions a subscribers list names.
Named(subscribers) == {e[2] : e \in Listed(subscribers)}

\* C14: a subscription's notification_index is 0 at creation, never
\* decreases, and is one higher after each successful PUT or DELETE of an
\* Operation whose subscribers list names the subscription.
C14_IndexAdvances ==
  /\ \A req \in Requests :
       Served(req) =>
         \A s \in DOMAIN Outcome(req).m.subscriptions :
           IF s \in StoredSubs
           THEN SubOf(Outcome(req).m, s).notification_index >= Sub(s).notification_index
           ELSE SubOf(Outcome(req).m, s).notification_index = 0
  /\ \A req \in OperationRequests :
       Served(req) /\ Succeeds(req) =>
         \A s \in Named(Outcome(req).l.body.subscribers) \cap StoredSubs :
           SubOf(Outcome(req).m, s).notification_index = Sub(s).notification_index + 1

\* PUTs and DELETEs of a stored Subscription by a caller who is not its owner.
CrossOwnerSubscriptionRequests ==
  {req \in SubscriptionRequests :
     req.id \in StoredSubs /\ Sub(req.id).owner # req.caller}

\* DELETEs of a Subscription that is not stored.
AbsentSubscriptionDeletes ==
  {req \in DeleteSubscriptionRequests : req.id \notin StoredSubs}

\* The request run to r = [m, l] is answered with the error and the store
\* is as it was.
Refused(r, error) == ServedAs(r) => r.l.status = error /\ View(r.m) = View(Mem)

\* C15: a PUT or DELETE of a stored Subscription by a caller other than its
\* owner fails with Forbidden, a DELETE of a Subscription that is not stored
\* fails with NotFound, and both leave the store unchanged.
C15_SubscriptionGuards ==
  /\ \A req \in CrossOwnerSubscriptionRequests : Refused(Outcome(req), "Forbidden")
  /\ \A req \in AbsentSubscriptionDeletes : Refused(Outcome(req), "NotFound")

\* A state in which a PUT and a DELETE of a stored Subscription by the other
\* USS are answered Forbidden and a DELETE of an absent one NotFound.
C15_Witness ==
  /\ \E req \in CrossOwnerSubscriptionRequests :
       /\ req.kind = "PutSubscription" /\ Served(req) /\ StatusOf(req) = "Forbidden"
       /\ req.old_version = Some(Sub(req.id).version)
  /\ \E req \in CrossOwnerSubscriptionRequests :
       req.kind = "DeleteSubscription" /\ Served(req) /\ StatusOf(req) = "Forbidden"
  /\ \E req \in AbsentSubscriptionDeletes :
       Served(req) /\ StatusOf(req) = "NotFound" /\ StoredSubs # {}

\* The requests whose token is other than the USS's strategic-coordination
\* token.
OtherTokenRequests ==
  PutOperationOtherTokens \cup DeleteOperationOtherTokens
  \cup PutSubscriptionOtherTokens \cup DeleteSubscriptionOtherTokens

\* The token is missing or invalid.
Unauthenticated(req) == req.token = None \/ ~ Val(req.token).signature

\* The token is valid and its scopes, none when it has no scope claim,
\* contain none of the scopes the endpoint permits.
NoPermittedScope(req) ==
  /\ ~ Unauthenticated(req)
  /\ \/ Val(req.token).scope = None
     \/ Val(Val(req.token).scope) \cap PermittedScopes(req.kind) = {}

\* C16: a request whose token is missing or invalid is answered
\* Unauthenticated and a request whose scopes contain none of the scopes its
\* endpoint permits (utm.strategic_coordination on the Operation endpoints,
\* that or utm.constraint_consumption on the Subscription endpoints) is
\* answered Forbidden, in both cases before the handler touches the store,
\* which is unchanged.
C16_AuthorizationFirst ==
  \A req \in OtherTokenRequests :
    Served(req) =>
      /\ Unauthenticated(req) => StatusOf(req) = "Unauthenticated" /\ Unchanged(req)
      /\ NoPermittedScope(req) => StatusOf(req) = "Forbidden" /\ Unchanged(req)

\* The clock readings of a request that follows a request served at Now.
Later == {Now, Now + 1}

\* GET of the Operation a PUT stored returns the reference of the PUT's
\* response.
OperationRoundTrip(req) ==
  GetOperation(Outcome(req).m, req.caller, req.id)
    = ReadResponse("OK", [operation_reference |->
                            Outcome(req).l.body.operation_reference])

\* GET of the Subscription a PUT stored, at time now, returns the
\* subscription of the PUT's response.
SubscriptionRoundTrip(req, now) ==
  GetSubscription(Outcome(req).m, req.caller, req.id, now)
    = ReadResponse("OK", [subscription |-> Outcome(req).l.body.subscription])

\* C17: a GET that follows a successful PUT of an Operation or a
\* Subscription, for the same ID and by the same caller, returns the
\* reference of the PUT's response: id, version, times, uss_base_url,
\* subscription binding and the owner's OVN.
C17_RoundTrip ==
  /\ \A req \in PutOperationRequests :
       Served(req) /\ Succeeds(req) => OperationRoundTrip(req)
  /\ \A req \in PutSubscriptionRequests, now \in Later :
       Served(req) /\ Succeeds(req) => SubscriptionRoundTrip(req, now)

\* No GET and no volume query on memory m, by any caller, over any area,
\* returns an Operation of ids.
OperationsNotListed(response, ids) ==
  response.status = "OK" =>
    \A i \in DOMAIN response.body.operation_references :
      response.body.operation_references[i].id \notin ids
OperationsGone(m, ids) ==
  /\ \A c \in Callers, o \in ids : GetOperation(m, c, o).status = "NotFound"
  /\ \A o \in ids : \A c \in Callers, a \in QueryAreas :
       OperationsNotListed(QueryOperations(m, c, a), {o})

\* The same for the Subscriptions of ids.
SubscriptionsNotListed(response, ids) ==
  response.status = "OK" =>
    \A i \in DOMAIN response.body.subscriptions :
      response.body.subscriptions[i].id \notin ids
SubscriptionsGone(m, ids) ==
  /\ \A c \in Callers, s \in ids : GetSubscription(m, c, s, Now).status = "NotFound"
  /\ \A s \in ids : \A c \in Callers, a \in QueryAreas :
       SubscriptionsNotListed(QuerySubscriptions(m, c, a, Now), {s})

\* The request is a PUT that creates the Operation o / the Subscription s:
\* a PUT of that ID or, for a Subscription, a PUT of an Operation that
\* draws a new ID for its implicit subscription.
CreatesOperation(req, o) == req.kind = "PutOperation" /\ req.id = o
CreatesSubscription(req, s) ==
  \/ req.kind = "PutSubscription" /\ req.id = s
  \/ req.kind = "PutOperation" /\ req.subscription_id = None

\* The IDs that are to be gone once the request has run to r = [m, l]: the
\* one its successful DELETE removed and those that were not stored and
\* that it does not create.
OperationsToBeGone(req, r) ==
  {o \in OpIds \ StoredOps : ~ CreatesOperation(req, o)}
  \cup {o \in OpIds : req.kind = "DeleteOperation" /\ req.id = o /\ SucceedsAs(r)}
SubscriptionsToBeGone(req, r) ==
  {s \in SubIds \ StoredSubs : ~ CreatesSubscription(req, s)}
  \cup {s \in SubIds : req.kind = "DeleteSubscription" /\ req.id = s /\ SucceedsAs(r)}

\* The request run to r = [m, l] leaves none of them stored.
NotStoredAfter(req, r) ==
  ServedAs(r) =>
    /\ OperationsToBeGone(req, r) \cap DOMAIN r.m.operations = {}
    /\ SubscriptionsToBeGone(req, r) \cap DOMAIN r.m.subscriptions = {}

\* C18: once a DELETE of an entity has succeeded, GET of its ID answers
\* NotFound and no volume query returns the entity, until a PUT creates the
\* ID again.  In every reachable store an ID that is not stored is gone
\* from every GET and query; a successful DELETE leaves the ID not stored;
\* and an ID that is not stored is still not stored after any request that
\* is not such a PUT.
C18_DeletedStaysGone ==
  /\ OperationsGone(Mem, OpIds \ StoredOps)
  /\ SubscriptionsGone(Mem, SubIds \ StoredSubs)
  /\ \A req \in Requests : NotStoredAfter(req, Outcome(req))

\* A state with an Operation and a Subscription that a GET and a volume
\* query return and that their owners' DELETEs remove.
C18_Witness ==
  /\ \E req \in DeleteOperationRequests :
       /\ Served(req) /\ Succeeds(req)
       /\ GetOperation(Mem, req.caller, req.id).status = "OK"
       /\ \E a \in QueryAreas :
            /\ QueryOperations(Mem, req.caller, a).status = "OK"
            /\ QueryOperations(Mem, req.caller, a).body.operation_references # <<>>
            /\ QueryOperations(Outcome(req).m, req.caller, a).status = "OK"
  /\ \E req \in DeleteSubscriptionRequests :
       /\ Served(req) /\ Succeeds(req)
       /\ GetSubscription(Mem, req.caller, req.id, Now).status = "OK"
       /\ \E a \in QueryAreas :
            /\ QuerySubscriptions(Mem, req.caller, a, Now).status = "OK"
            /\ QuerySubscriptions(Mem, req.caller, a, Now).body.subscriptions # <<>>
            /\ QuerySubscriptions(Outcome(req).m, req.caller, a, Now).status = "OK"

\* The volumes find_subscriptions and find_operations are called with.
FindVolumes == {VolA, VolB, VolBig, VolOpen, VolNoEnd, VolNoStart, VolLate}
Owners == {None} \cup {Some(c) : c \in Callers}

\* The stored subscriptions that intersect v and, when owner is given,
\* belong to owner; the stored Operations that intersect v.
MatchingSubs(v, owner) ==
  {s \in StoredSubs :
     Intersects(v, Sub(s).vol4) /\ (owner = None \/ Sub(s).owner = Val(owner))}
MatchingOps(v) == {o \in StoredOps : Intersects(v, Op(o).vol4)}

\* found, the result [exc, v] of find_subscriptions, is the subscriptions
\* ids, each once; the same for find_operations.
FoundSubs(found, ids) ==
  /\ found.exc = ""
  /\ {heap.objs[found.v[i]].id : i \in DOMAIN found.v} = ids
  /\ Len(found.v) = Cardinality(ids)
FoundOps(found, ids) ==
  /\ found.exc = ""
  /\ {found.v[i].id : i \in DOMAIN found.v} = ids
  /\ Len(found.v) = Cardinality(ids)

\* C19: in every reachable store, find_subscriptions(vol4, owner) returns
\* exactly the stored subscriptions whose cells intersect vol4.cells, whose
\* time and altitude overlap vol4 and, when owner is given, whose owner is
\* owner, and find_operations(vol4) the stored Operations likewise: none
\* omitted, none else, none twice.
C19_FindExact ==
  NoHandlerRuns =>
    \A v \in FindVolumes :
      /\ \A owner \in Owners :
           FoundSubs(find_subscriptions(Mem, v, owner), MatchingSubs(v, owner))
      /\ FoundOps(find_operations(Mem, v), MatchingOps(v))

\* C20: the response to a successful PUT of a Subscription lists in
\* operations every stored Operation whose volume intersects the volume of
\* the subscription as stored (cells, time and altitude).
C20_PutSubscriptionOperations ==
  \A req \in PutSubscriptionRequests :
    Served(req) /\ Succeeds(req) =>
      \A o \in DOMAIN Outcome(req).m.operations :
        Intersects(SubOf(Outcome(req).m, req.id).vol4, Outcome(req).m.operations[o].vol4)
          => \E i \in DOMAIN Outcome(req).l.body.operations :
               Outcome(req).l.body.operations[i].id = o

\* A volume with an endpoint of time or altitude absent.
Unbounded(v) ==
  None \in {v.time_start, v.time_end, v.altitude_lo, v.altitude_hi}

\* PUTs of an Operation, by its owner or of a new ID and with the current
\* old_version, whose extents parse and hold a volume with an absent
\* endpoint, so that the envelope lacks that endpoint.
UnboundedEnvelopePuts ==
  {req \in PutOperationRequests :
     /\ req.extents # <<>>
     /\ \A i \in 1..Len(req.extents) : req.extents[i] # InvalidVolume
     /\ \E i \in 1..Len(req.extents) : Unbounded(req.extents[i])
     /\ req.id \in StoredOps => Op(req.id).owner = req.caller
     /\ ~ StaleOperationPut(req)}

\* C21: a PUT of an Operation whose envelope lacks time_start, time_end,
\* altitude_lo or altitude_hi fails with InvalidRequest, with one volume or
\* several, bound by subscription_id or by new_subscription, and leaves the
\* store unchanged.
C21_UnboundedEnvelope ==
  \A req \in UnboundedEnvelopePuts : Refused(Outcome(req), "InvalidRequest")

\* C22: in every reachable state in which no handler is inside a request,
\* every implicit subscription in the store has a non-empty
\* dependent_operations set.
C22_ImplicitHasDependents ==
  NoHandlerRuns =>
    \A s \in StoredSubs :
      Sub(s).implicit_subscription => Sub(s).dependent_operations # {}

\* The endpoints of a volume are in order on both axes whenever both are
\* set.
InOrderOrAbsent(lo, hi) == lo = None \/ hi = None \/ Val(lo) <= Val(hi)
WellOrdered(v) ==
  /\ InOrderOrAbsent(v.time_start, v.time_end)
  /\ InOrderOrAbsent(v.altitude_lo, v.altitude_hi)

\* PUTs of a Subscription, by its owner or of a new ID and with the current
\* old_version, whose extents parse into a volume with
\* time_start > time_end.
InvertedPuts ==
  {req \in PutSubscriptionRequests :
     /\ req.extents \notin {None, Some(InvalidVolume)}
     /\ ~ InOrderOrAbsent(Val(req.extents).time_start, Val(req.extents).time_end)
     /\ req.id \in StoredSubs => Sub(req.id).owner = req.caller
     /\ ~ StaleSubscriptionPut(req)}

\* The request run to r = [m, l] fails with InvalidRequest and stores
\* nothing.
StoresNothing(r) == ServedAs(r) => r.l.status = "InvalidRequest" /\ View(r.m) = View(Mem)

\* C23: the vol4 of every stored Subscription and Operation has
\* time_start <= time_end and altitude_lo <= altitude_hi whenever both
\* endpoints are set, and a PUT whose extents have time_start > time_end
\* fails with InvalidRequest and stores nothing.
C23_VolumesWellOrdered ==
  /\ \A s \in StoredSubs : WellOrdered(Sub(s).vol4)
  /\ \A o \in StoredOps : WellOrdered(Op(o).vol4)
  /\ \A req \in InvertedPuts : StoresNothing(Outcome(req))

\* The DELETE of a Subscription, run to r = [m, l], leaves the subscription
\* in the store.
ImplicitKept(req, r) == ServedAs(r) => req.id \in DOMAIN r.m.subscriptions

\* C24: DELETE /subscriptions/{id} never removes a subscription whose
\* implicit flag is true (an implicit subscription leaves the store only
\* with the DELETE of its last dependent Operation), so that it never
\* leaves an Operation bound to a missing subscription.
C24_ImplicitNotDeletable ==
  \A req \in DeleteSubscriptionRequests :
    req.id \in StoredSubs /\ Sub(req.id).implicit_subscription =>
      ImplicitKept(req, Outcome(req))

\* Handler h is inside its core operation: it has made its first access
\* to the store and has not responded yet.
InsideCore(h) == handlers[h].pc \notin {"idle", "done", "start"}

\* C25: all store accesses happen under one exclusive lock held for the
\* whole core operation: while a handler is inside its core operation no
\* other handler executes a statement that reads or writes the store, so
\* that the accesses of two handlers never interleave.
C25_StoreLock ==
  [][\A h, g \in Handlers :
       h # g /\ InsideCore(h) /\ handlers[g].pc \notin {"idle", "done"}
         => handlers'[g] = handlers[g]]_vars

\* The bucket of cell c: the one the index holds or an empty one.
Bucket(c) ==
  IF c \in DOMAIN scd_storage.cells THEN scd_storage.cells[c] ELSE CellContents

\* C26: in every reachable store, whatever upserts and deletes led to it, the
\* bucket of cell c lists subscription (operation) ID e exactly when e is a
\* stored subscription (operation) and c is one of the cells of its vol4;
\* no bucket lists the ID of an entity that is not stored.
C26_IndexConsistent ==
  \A c \in Cells :
    /\ Bucket(c).subscription_ids = {s \in StoredSubs : c \in Sub(s).vol4.cells}
    /\ Bucket(c).operation_ids = {o \in StoredOps : c \in Op(o).vol4.cells}

\* A PUT that replaces a stored Subscription with one that no longer covers a
\* cell which another entity still covers: the bucket stays and no longer
\* lists the subscription.
C26_Witness ==
  \E req \in PutSubscriptionRequests :
    /\ Served(req) /\ Succeeds(req) /\ req.id \in StoredSubs
    /\ \E c \in Sub(req.id).vol4.cells \ SubOf(Outcome(req).m, req.id).vol4.cells :
         /\ c \in DOMAIN Outcome(req).m.cells
         /\ req.id \notin Outcome(req).m.cells[c].subscription_ids
         /\ req.id \in Bucket(c).subscription_ids

\* C27: in every reachable store a cell is a key of the cell index if and
\* only if a stored Subscription or Operation covers it, and no bucket has
\* both of its ID sets empty.
C27_BucketEviction ==
  /\ DOMAIN scd_storage.cells
       = UNION ({Sub(s).vol4.cells : s \in StoredSubs}
                \cup {Op(o).vol4.cells : o \in StoredOps})
  /\ \A c \in DOMAIN scd_storage.cells :
       scd_storage.cells[c].subscription_ids # {} \/ scd_storage.cells[c].operation_ids # {}

\* A DELETE that takes the last entity from one bucket, which leaves the
\* index, and not from another, which stays.
C27_Witness ==
  \E req \in DeleteSubscriptionRequests \cup DeleteOperationRequests :
    /\ Served(req) /\ Succeeds(req)
    /\ DOMAIN Outcome(req).m.cells # DOMAIN scd_storage.cells
    /\ DOMAIN Outcome(req).m.cells \subseteq DOMAIN scd_storage.cells
    /\ DOMAIN Outcome(req).m.cells # {}

\* A truth value of Python as the model writes it.
PyBool(b) == IF b THEN "True" ELSE "False"

\* find_subscriptions(v) returns the stored subscription s.
Finds(v, s) ==
  /\ find_subscriptions(Mem, v, None).exc = ""
  /\ \E i \in DOMAIN find_subscriptions(Mem, v, None).v :
       heap.objs[find_subscriptions(Mem, v, None).v[i]].id = s

\* C28: overlaps_time_altitude(a, b) returns a boolean for every pair of
\* volumes, an absent endpoint of either argument counting as infinite; a
\* stored Subscription with an absent endpoint is returned by
\* find_subscriptions for every volume that intersects its cells and its
\* remaining bounds, and no query of subscriptions fails on it.
C28_OverlapsTotal ==
  /\ \A a, b \in FindVolumes : overlaps_time_altitude(a, b) = PyBool(Overlaps(a, b))
  /\ \A s \in StoredSubs, v \in FindVolumes :
       Unbounded(Sub(s).vol4) /\ Intersects(v, Sub(s).vol4) => Finds(v, s)
  /\ \A c \in Callers, a \in QueryAreas :
       QuerySubscriptions(Mem, c, a, Now).status # ServerError

\* PUTs of an Operation, by its owner or of a new ID and with the current
\* old_version, whose extents parse into an envelope with all four
\* endpoints and that cite a stored subscription whose vol4 contains the
\* envelope.
ContainedPuts ==
  {req \in PutOperationRequests :
     /\ ExtentsParse(req) /\ ~ Unbounded(combine_volume4s(req.extents).v)
     /\ req.uss_base_url # None
     /\ req.id \in StoredOps => Op(req.id).owner = req.caller
     /\ ~ StaleOperationPut(req)
     /\ req.subscription_id # None /\ Val(req.subscription_id) \in StoredSubs
     /\ Encloses(Sub(Val(req.subscription_id)).vol4, combine_volume4s(req.extents).v)}

\* The PUT run to r = [m, l] succeeds and stores the Operation bound to the
\* subscription it cites.
BoundAsCited(req, r) ==
  ServedAs(r) =>
    /\ r.l.status \in {"OK", "Created"}
    /\ r.m.operations[req.id].subscription = Val(req.subscription_id)

\* C29: Volume4.contains(other) is true exactly when the time and altitude
\* intervals of other lie inside those of the volume, an absent endpoint of
\* the volume being unbounded, and the cells of other are cells of the
\* volume; so a PUT binds an Operation by subscription_id to a subscription
\* that covers it, one with an absent time_end or altitude bound included.
C29_ContainsExact ==
  /\ \A v, w \in FindVolumes : Contains(v, w) = PyBool(Encloses(v, w))
  /\ \A req \in ContainedPuts : BoundAsCited(req, Outcome(req))

\* After a request answered with status, an entity that stays in the store
\* (before as it was, after as it is) has a greater version when a successful
\* request changed it and its old version when the request failed.
VersionAdvances(before, after, status) ==
  IF status \in {"OK", "Created"}
  THEN after = before \/ after.version > before.version
  ELSE after.version = before.version

\* The same for every entity that is in the store before and after the
\* request run to r = [m, l].
VersionsAdvance(r) ==
  ServedAs(r) =>
    /\ \A s \in StoredSubs \cap DOMAIN r.m.subscriptions :
         VersionAdvances(Sub(s), SubOf(r.m, s), r.l.status)
    /\ \A o \in StoredOps \cap DOMAIN r.m.operations :
         VersionAdvances(Op(o), [r.m.operations[o] EXCEPT !.ovn = Op(o).ovn], r.l.status)

\* C30: for as long as an entity stays in the store, each successful
\* mutation of it, the version bumps of a Subscription to which an Operation
\* is bound or from which it is unbound included, stores a version greater
\* than the versions stored before, and a failed request never changes its
\* version.
C30_VersionsIncrease ==
  \A req \in Requests : VersionsAdvance(Outcome(req))

\* DELETEs of a stored Operation whose bound subscription is stored and is
\* explicit, or implicit with a dependent other than the Operation left: an
\* ID in its dependent_operations or an Operation bound to it.
KeepingDeletes ==
  {req \in DeleteOperationRequests :
     /\ req.id \in StoredOps
     /\ Op(req.id).subscription \in StoredSubs
     /\ \/ ~ Sub(Op(req.id).subscription).implicit_subscription
        \/ Sub(Op(req.id).subscription).dependent_operations \ {req.id} # {}
        \/ \E o \in StoredOps \ {req.id} : Op(o).subscription = Op(req.id).subscription}

\* The cells whose bucket lists Subscription s.
FiledUnder(m, s) == {c \in DOMAIN m.cells : s \in m.cells[c].subscription_ids}

\* Subscription after is before with the Operation's ID removed from
\* dependent_operations and the version incremented by one.
UnboundFrom(before, after, id) ==
  /\ id \in before.dependent_operations
  /\ after = [before EXCEPT !.dependent_operations = @ \ {id}, !.version = @ + 1]

\* The DELETE run to r = [m, l] keeps Subscription s stored and filed under
\* the same cells; answered OK it has unbound the Operation, answered with
\* an error it has unbound it or left the Subscription as it was.
KeepsBound(req, r, s) ==
  ServedAs(r) =>
    /\ s \in DOMAIN r.m.subscriptions
    /\ FiledUnder(r.m, s) = FiledUnder(Mem, s)
    /\ \/ UnboundFrom(Sub(s), SubOf(r.m, s), req.id)
       \/ r.l.status # "OK" /\ SubOf(r.m, s) = Sub(s)

\* C31: DELETE of an Operation whose bound subscription is explicit, or
\* implicit with other dependents left, keeps that subscription in the
\* store and changes only two of its fields: the Operation's ID is removed
\* from dependent_operations and version is incremented by one; owner, vol4,
\* uss_base_url, the notify flags, the implicit flag, notification_index and
\* the cells it is filed under are unchanged.
C31_DeleteKeepsSubscription ==
  \A req \in KeepingDeletes : KeepsBound(req, Outcome(req), Op(req.id).subscription)

\* A state in which the owner's DELETE of one of two Operations bound to an
\* implicit subscription is answered OK and the subscription stays stored.
C31_Witness ==
  \E req \in KeepingDeletes :
    /\ Served(req) /\ StatusOf(req) = "OK"
    /\ Sub(Op(req.id).subscription).implicit_subscription
    /\ \E o \in StoredOps \ {req.id} : Op(o).subscription = Op(req.id).subscription
    /\ Op(req.id).subscription \in DOMAIN Outcome(req).m.subscriptions

\* The Subscription a successful PUT, run to r = [m, l], has stored: when
\* the PUT updated a stored Subscription its notification_index,
\* dependent_operations and owner are those of the previous record, when it
\* created one its notification_index is 0 and its dependent_operations
\* empty.
CarriedOver(req, r, after) ==
  SucceedsAs(r) =>
    IF req.id \in StoredSubs
    THEN /\ r.l.status = "OK"
         /\ after.notification_index = Sub(req.id).notification_index
         /\ after.dependent_operations = Sub(req.id).dependent_operations
         /\ after.owner = Sub(req.id).owner
    ELSE /\ r.l.status = "Created"
         /\ after.notification_index = 0
         /\ after.dependent_operations = {}

StoredBy(req, r) == SubOf(r.m, req.id)

\* C32: a successful PUT that updates an existing Subscription carries
\* notification_index and dependent_operations over unchanged from the
\* previous record and keeps the owner; a PUT that creates a Subscription
\* stores notification_index 0 and an empty dependent_operations set.
C32_PutSubscriptionCarriesOver ==
  \A req \in PutSubscriptionRequests :
    CarriedOver(req, Outcome(req), StoredBy(req, Outcome(req)))

\* A state in which the owner's PUT updates a Subscription that has a
\* dependent Operation and another PUT creates a Subscription.
C32_Witness ==
  /\ \E req \in PutSubscriptionRequests :
       /\ Served(req) /\ StatusOf(req) = "OK"
       /\ Sub(req.id).dependent_operations # {}
  /\ \E req \in PutSubscriptionRequests : Served(req) /\ StatusOf(req) = "Created"

\* The Volume4 objects of the calls of combine_volume4s examined: fully
\* bounded volumes, VolLow beginning before, reaching below and reaching
\* above the others.
VolLow == Volume4(T(0), T(1), T(0), T(3), {1})
VolumeObjects == <<VolA, VolB, VolLate, VolLow>>
MaxVolumes == 3
\* The non-empty lists of up to MaxVolumes references to them, an object
\* possibly listed more than once.
VolumeLists == UNION {[1..n -> DOMAIN VolumeObjects] : n \in 1..MaxVolumes}

SetMax(S) == CHOOSE x \in S : \A y \in S : y <= x
\* The enclosing envelope of a set of fully bounded volumes.
EnvelopeOf(vs) ==
  Volume4(Some(SetMin({Val(v.time_start) : v \in vs})),
          Some(SetMax({Val(v.time_end) : v \in vs})),
          Some(SetMin({Val(v.altitude_lo) : v \in vs})),
          Some(SetMax({Val(v.altitude_hi) : v \in vs})),
          UNION {v.cells : v \in vs})

\* The volumes a list of references names.
ValuesOf(vol4s) == [i \in DOMAIN vol4s |-> VolumeObjects[vol4s[i]]]

\* The call on the list vol4s has returned r = [exc, objs, v]: no exception,
\* a new object that is the envelope and contains every input, the input
\* objects as they were; the envelope the handlers compute is the same.
CombinedAs(vol4s, r) ==
  /\ r.exc = ""
  /\ r.v \notin DOMAIN VolumeObjects
  /\ r.objs[r.v] = EnvelopeOf({VolumeObjects[vol4s[i]] : i \in DOMAIN vol4s})
  /\ \A i \in DOMAIN vol4s :
       /\ Encloses(r.objs[r.v], VolumeObjects[vol4s[i]])
       /\ Contains(r.objs[r.v], VolumeObjects[vol4s[i]]) = "True"
  /\ \A ref \in DOMAIN VolumeObjects : r.objs[ref] = VolumeObjects[ref]
  /\ combine_volume4s(ValuesOf(vol4s)) = [exc |-> "", v |-> r.objs[r.v]]

\* Every call on a list of VolumeLists returns as CombinedAs describes.
EveryListCombined ==
  \A vol4s \in VolumeLists :
    CombinedAs(vol4s, combine_volume4s_objects(VolumeObjects, vol4s))

\* The envelopes of the fully bounded extents that the PUTs of Operations
\* carry.
BoundedEnvelopes ==
  {EnvelopeOf({req.extents[i] : i \in DOMAIN req.extents}) : req \in PutOperationBase}

\* C33: for every non-empty list of fully bounded volumes combine_volume4s
\* returns the enclosing envelope: time_start the minimum start, time_end
\* the maximum end, altitude_lo the minimum, altitude_hi the maximum and
\* cells the union of all cell sets; the result contains every input volume
\* and the input volumes are not modified.  Every stored Operation carries
\* the envelope of the extents it was PUT with.
C33_CombineIsEnvelope ==
  /\ EveryListCombined
  /\ \A o \in StoredOps : Op(o).vol4 \in BoundedEnvelopes

\* A state in which a PUT of an Operation with two volumes is served and
\* stores the Operation with their envelope, which is neither of the two.
C33_Witness ==
  \E req \in PutOperationRequests :
    /\ Served(req) /\ Succeeds(req)
    /\ Len(req.extents) = 2
    /\ Outcome(req).m.operations[req.id].vol4 = EnvelopeOf({req.extents[1], req.extents[2]})
    /\ Outcome(req).m.operations[req.id].vol4 \notin {req.extents[1], req.extents[2]}

\* Both handler threads have answered OK to a DELETE, each of another
\* Operation, and both responses name Subscription s as the subscription
\* of the deleted Operation; no Operation is stored any more.  The two
\* Operations were the last ones bound to s.
BothDeletesAnswered(s) ==
  /\ \A h \in Handlers :
       /\ handlers[h].pc = "done" /\ handlers[h].status = "OK"
       /\ handlers[h].req.kind = "DeleteOperation"
       /\ handlers[h].body.operation_reference.subscription_id = s
  /\ \A h, g \in Handlers : h # g => handlers[h].req.id # handlers[g].req.id
  /\ StoredOps = {}

\* Subscription s is still stored as an implicit subscription, or a bucket
\* still lists it.  DeleteOperation never writes implicit_subscription.
LeftBehind(s) ==
  \/ s \in StoredSubs /\ Sub(s).implicit_subscription
  \/ \E c \in DOMAIN scd_storage.cells :
       s \in scd_storage.cells[c].subscription_ids /\ s \notin StoredSubs

\* C34: when the last two Operations bound to the same implicit
\* subscription are deleted by two concurrently executing DELETE requests
\* that both succeed, the subscription is afterwards absent from the store
\* and from every cell bucket: it is not left behind with an empty
\* dependent_operations set.
C34_ConcurrentLastDeletes ==
  \A s \in SubIds : BothDeletesAnswered(s) => ~LeftBehind(s)

\* The request run to r = [m, l] leaves every stored Subscription whose
\* owner is not the caller stored and equal in every field.
OthersUntouched(req, r) ==
  ServedAs(r) =>
    \A s \in StoredSubs :
      Sub(s).owner # req.caller =>
        s \in DOMAIN r.m.subscriptions /\ SubOf(r.m, s) = Sub(s)

\* C35: no request issued by caller C changes any field (version,
\* dependent_operations, vol4, flags) of a stored Subscription whose owner
\* is not C; in particular a PUT of an Operation that cites another USS's
\* subscription by subscription_id, whether it succeeds or fails, leaves
\* that subscription unchanged.
C35_ForeignSubscriptionsUntouched ==
  \A req \in Requests : OthersUntouched(req, Outcome(req))

\* The cells whose bucket lists Operation o.
OperationFiledUnder(m, o) == {c \in DOMAIN m.cells : o \in m.cells[c].operation_ids}

\* The PUT run to r = [m, l] has mutated a stored Operation: every
\* subscription its subscribers list names intersects the vol4 now stored,
\* no subscription that intersected only the previous vol4 is named, and
\* the buckets that list the Operation are those of the cells now stored.
MovedAs(req, r) ==
  req.id \in StoredOps /\ SucceedsAs(r) =>
    /\ \A s \in Named(r.l.body.subscribers) :
         /\ s \in DOMAIN r.m.subscriptions
         /\ Intersects(r.m.operations[req.id].vol4, SubOf(r.m, s).vol4)
    /\ \A s \in StoredSubs :
         (/\ Intersects(Op(req.id).vol4, Sub(s).vol4)
          /\ ~ Intersects(r.m.operations[req.id].vol4, Sub(s).vol4))
         => s \notin Named(r.l.body.subscribers)
    /\ OperationFiledUnder(r.m, req.id) = r.m.operations[req.id].vol4.cells

\* C36: the subscribers list of a PUT that mutates an existing Operation is
\* computed from the Operation's new envelope only: a subscription that
\* overlapped the Operation's previous vol4 but does not overlap the new one
\* is absent from the list, and the cell buckets afterwards list the
\* Operation only under the new cells.
C36_SubscribersOfNewEnvelope ==
  \A req \in PutOperationRequests : MovedAs(req, Outcome(req))

\* A state in which a PUT shrinks a stored Operation to fewer cells and a
\* shorter time while a stored subscription intersects the previous vol4
\* and not the new one, and is not named.
C36_Witness ==
  \E req \in PutOperationRequests :
    /\ Served(req) /\ StatusOf(req) = "OK"
    /\ Outcome(req).m.operations[req.id].vol4.cells # Op(req.id).vol4.cells
    /\ \E s \in StoredSubs :
         /\ Intersects(Op(req.id).vol4, Sub(s).vol4)
         /\ ~ Intersects(Outcome(req).m.operations[req.id].vol4, Sub(s).vol4)
         /\ Sub(s).vol4.cells \cap Outcome(req).m.operations[req.id].vol4.cells # {}
         /\ s \in DOMAIN Outcome(req).m.subscriptions
         /\ s \notin Named(Outcome(req).l.body.subscribers)

\* A successful PUT of a stored Subscription, run to r = [m, l], stores it
\* explicit and with the dependent_operations it had.
StoredExplicit(req, r) ==
  req.id \in StoredSubs /\ SucceedsAs(r) =>
    /\ ~ SubOf(r.m, req.id).implicit_subscription
    /\ SubOf(r.m, req.id).dependent_operations = Sub(req.id).dependent_operations

\* The DELETEs, by its owner, of the Operation that is the last dependent
\* of Subscription s in memory m.
LastDependentDeletes(m, s) ==
  {del \in DeleteOperationRequests :
     /\ del.id \in DOMAIN m.operations
     /\ m.operations[del.id].owner = del.caller
     /\ m.operations[del.id].subscription = s
     /\ SubOf(m, s).dependent_operations = {del.id}}

\* The handler of req run to its response on memory m.
RunOn(m, req) == RunHandler([m |-> m, l |-> StartLocal(req)])

\* The DELETE has run to its response d = [m, l] and Subscription s is
\* still stored.
DeletedKeeping(d, s) == d.l.pc = "done" /\ s \in DOMAIN d.m.subscriptions

\* After a successful PUT, run to r = [m, l], of a stored implicit
\* Subscription the DELETE of its last dependent Operation keeps it.
KeptAfterPut(req, r) ==
  (/\ req.kind = "PutSubscription"
   /\ req.id \in StoredSubs /\ Sub(req.id).implicit_subscription
   /\ SucceedsAs(r)) =>
    \A del \in LastDependentDeletes(Canon(r.m), req.id) :
      DeletedKeeping(RunOn(Canon(r.m), del), req.id)

\* Both for the PUT run to r = [m, l].
FlagAsPut(req, r) == StoredExplicit(req, r) /\ KeptAfterPut(req, r)

\* Subscription s is stored before and after the step and the step changes
\* its implicit flag.
FlagChanges(s) ==
  /\ s \in StoredSubs /\ s \in StoredSubs'
  /\ Sub(s)'.implicit_subscription # Sub(s).implicit_subscription

\* The step is that of a successful PUT of Subscription s.
StepOfPut(s) ==
  \E req \in PutSubscriptionRequests :
    /\ req.id = s
    /\ SucceedsAs(Outcome(req))
    /\ Mem' = Canon(Outcome(req).m)

\* C37: a successful PUT /subscriptions/{id} by the owner on an existing
\* implicit subscription stores it with implicit = false while keeping its
\* dependent_operations, so a later DELETE of its last dependent Operation
\* does not remove the subscription; the implicit flag of a stored
\* subscription changes in no other way: every step that changes it is
\* the step of such a PUT.
C37_ImplicitMadeExplicit ==
  /\ [](\A req \in PutSubscriptionRequests : FlagAsPut(req, Outcome(req)))
  /\ [][\A s \in SubIds : FlagChanges(s) => StepOfPut(s)]_vars

\* A state in which the owner's PUT of an implicit subscription with one
\* dependent Operation succeeds and the DELETE of that Operation after it
\* is answered OK and keeps the subscription.
C37_Witness ==
  \E req \in PutSubscriptionRequests :
    /\ Served(req) /\ StatusOf(req) = "OK"
    /\ Sub(req.id).implicit_subscription
    /\ ~ SubOf(Outcome(req).m, req.id).implicit_subscription
    /\ \E del \in LastDependentDeletes(Canon(Outcome(req).m), req.id) :
         /\ DeletedKeeping(RunOn(Canon(Outcome(req).m), del), req.id)
         /\ RunOn(Canon(Outcome(req).m), del).l.status = "OK"
         /\ del.id \notin DOMAIN RunOn(Canon(Outcome(req).m), del).m.operations

\* The Subscription and Operation objects the storage is called with: each
\* ID over each of several sets of cells.
SubscriptionArguments ==
  {Subscription(id, "uss1", 1, 0, v, "url1", TRUE, FALSE, FALSE, 0) :
     id \in SubIds, v \in {VolA, VolBig, VolLate}}
OperationArguments ==
  {Operation(id, "uss1", 2, 1, v, "url1", 1) : id \in OpIds, v \in {VolA, VolB, VolBig}}

\* Memory m with a new Subscription object sub, whose dependent_operations
\* is a new empty set; the object is at reference NewRef(m.objs).
WithObject(m, sub) ==
  [m EXCEPT !.objs = DictSet(@, NewRef(m.objs),
                             [sub EXCEPT !.dependent_operations = NewRef(m.sets)]),
            !.sets = DictSet(@, NewRef(m.sets), {})]

\* The IDs that the bucket of cell c lists in field, none when there is no
\* bucket.
IdsAt(m, c, field) == IF c \in DOMAIN m.cells THEN m.cells[c][field] ELSE {}

\* Memory m lists in field what the current store lists, cell by cell, and
\* has a bucket wherever the current store lists an ID in field.
OtherKindListed(m, field) ==
  \A c \in Cells :
    /\ IdsAt(m, c, field) = IdsAt(Mem, c, field)
    /\ IdsAt(Mem, c, field) # {} => c \in DOMAIN m.cells

\* A call on a Subscription has returned r = [exc, m]: the operations map
\* and the Operations listed are as in the current store.
OperationsKept(r) ==
  r.m.operations = Mem.operations /\ OtherKindListed(r.m, "operation_ids")

\* A call on an Operation has returned r = [exc, m]: the subscriptions map,
\* the Subscription objects and the Subscriptions listed are as in the
\* current store.
SubscriptionsKept(r) ==
  /\ r.m.subscriptions = Mem.subscriptions
  /\ r.m.objs = Mem.objs /\ r.m.sets = Mem.sets
  /\ OtherKindListed(r.m, "subscription_ids")

\* C38: store operations on one entity kind leave the other kind untouched:
\* upsert_subscription and delete_subscription never change the operations
\* map or the operation_ids set of any bucket, upsert_operation and
\* delete_operation never change the subscriptions map or any
\* subscription_ids set, and a bucket that still lists an entity of the
\* other kind is never evicted.
C38_KindsApart ==
  /\ \A sub \in SubscriptionArguments :
       OperationsKept(upsert_subscription(WithObject(Mem, sub), NewRef(Mem.objs)))
  /\ \A s \in SubIds : OperationsKept(delete_subscription(Mem, s))
  /\ \A operation \in OperationArguments :
       SubscriptionsKept(upsert_operation(Mem, operation))
  /\ \A o \in OpIds : SubscriptionsKept(delete_operation(Mem, o))

\* A state with a bucket that lists a Subscription and an Operation:
\* deleting either from the store leaves the bucket listing the other.
C38_Witness ==
  \E c \in DOMAIN scd_storage.cells :
    /\ \E s \in scd_storage.cells[c].subscription_ids :
         /\ delete_subscription(Mem, s).exc = ""
         /\ delete_subscription(Mem, s).m.cells[c] =
              [subscription_ids |-> {}, operation_ids |-> scd_storage.cells[c].operation_ids]
    /\ \E o \in scd_storage.cells[c].operation_ids :
         /\ delete_operation(Mem, o).exc = ""
         /\ delete_operation(Mem, o).m.cells[c] =
              [subscription_ids |-> scd_storage.cells[c].subscription_ids, operation_ids |-> {}]
    /\ scd_storage.cells[c].subscription_ids # {} /\ scd_storage.cells[c].operation_ids # {}
====
